---- MODULE Spec2Model ----
(***************************************************************************)
(* State-machine model of src/index.ts: the FIX 4.4 session engine         *)
(* (FixClient), the tick queue worker (marketDataQueue.process) and the    *)
(* candle queue worker (candleProcessingQueue.process).                    *)
(*                                                                         *)
(* The three subsystems hand work over only through the two Bull queues,   *)
(* so each is explored by its own specification over the shared variables: *)
(*   Spec        the session engine (socket events, timers, logon,         *)
(*               subscription dispatch, shutdown signal);                  *)
(*   SpecCandle  the candle worker (cache path, durable path, retries);    *)
(*   SpecBucket  the candle worker on one job, over many tick times;       *)
(*   SpecTick    the tick workers (cache append, durable insert, retries); *)
(*   SpecReject  the tick workers on a catalog with a missing contract     *)
(*               size;                                                     *)
(*   SpecShutdown the SIGINT handler, step by step;                        *)
(*   SpecFraming extractMessages over a stream cut into reads;             *)
(*   SpecCodec   createFixMessage followed by parseFixMessage;             *)
(*   SpecEntries the market data branch of handleData (repeating groups);  *)
(*   SpecBootstrap fetchAllCurrencyPairs and cacheCandlesAndTicks over     *)
(*               catalogs with missing tables;                             *)
(*   SpecStream  the receive buffer across connections of one client;      *)
(*   SpecSerial  the candle worker with its awaits interleaved and the     *)
(*               Bull job timeout.                                         *)
(***************************************************************************)
EXTENDS Integers, Sequences, FiniteSets, TLC

VARIABLES
  \* ---- session engine (module-level lets and FixClient fields)
  sequenceNumber,        \* let sequenceNumber (line 61)
  isConnected,           \* let isConnected (line 62)
  reconnectTimeout,      \* let reconnectTimeout (line 63): ms left, NoTimer when none pending
  reconnectAttempts,     \* FixClient.reconnectAttempts (line 682)
  client,                \* state of the socket object held in FixClient.client
  subscribeTimers,       \* pending setTimeout(subscribeToMarketData, 1000): ms left of each
  availableCurrencyPairs,\* let availableCurrencyPairs (line 173)
  subscribedPairs,       \* const subscribedPairs (line 176)
  currpairdetails,       \* the durable catalog table read by fetchAllCurrencyPairs
  bootstrap,             \* position of initDatabase(): "pending", "done" or "failed"
  shutdown,              \* position of the SIGINT handler: "run", "closing", "aborted" or "exit"
  shutdownLog,           \* history: the steps of the SIGINT handler that have completed, in order
  \* ---- history of the socket held in FixClient.client (what was written to it)
  written,               \* messages written to the current socket, in order
  logonResponses,        \* number of 35=A frames received on the current socket
  logoutReceived,        \* history: a 35=5 frame has been received on the current socket
  dispatches,            \* number of dispatches that passed the guard on the current socket
  connections,           \* number of TCP connections established so far
  \* ---- candle engine (candleProcessingQueue, cache keys candle_*, candles_* tables)
  candleWait,            \* jobs waiting on candleProcessingQueue, head first
  candleDelayed,         \* failed jobs in their backoff delay
  candleActive,          \* the job the single worker is running: <<>> or <<job>>
  candlePos,             \* the running job's position in the processor (1..7)
  candleAdded,           \* number of jobs added to the queue so far
  candleFailures,        \* number of job attempts that have failed so far
  redisCandles,          \* cache: key <<symbol, timeframe, candletime>> -> OHLC record
  pgCandles,             \* durable rows, by primary key and table: same key -> OHLC
  lastDelivered,         \* history: per bucket, the price of the last tick added
  computed,              \* history: the <<ticktime, timeframe, candletime>> computed
  firstProcessed,        \* history: per bucket, the price of the first tick a job wrote
  candleCompleted,       \* history: the jobs that completed, in the order they did
  \* ---- candle processor invocations, await by await (jobs that timed out included)
  handlers,              \* the invocations of the candle processor that are running
  cacheOrder,            \* invocations with a GET or SET sent to the cache, in the order sent
  candleTimeouts,        \* number of job timeouts that have fired so far
  \* ---- tick pipeline (marketDataQueue, cache lists ticks_*, ticks_* tables)
  tickWait,              \* jobs waiting on marketDataQueue, head first
  tickDelayed,           \* failed jobs in their backoff delay
  tickActive,            \* the jobs the workers are running, each with its position
  tickAdded,             \* number of jobs added to the queue so far
  tickFailures,          \* number of job attempts made to fail so far
  tickLists,             \* cache: key <<symbol, type>> -> a list of ticks or a string
  tickTables,            \* durable: table <<symbol, type>> -> set of rows
  tickCached,            \* cacheCandlesAndTicks has written the ticks_* keys
  tickCompleted,         \* history: the tick jobs whose processor returned
  tickEnqueued,          \* history: per tick job id, the candle jobs it has added
  tickPushed,            \* history: per tick job id, the rPush calls that succeeded for it
  tickDropped,           \* history: the tick jobs dropped after their last attempt
  \* ---- wire (the bytes of the socket, as sequences of characters)
  stream,                \* the bytes the counterparty sends, in order
  delivered,             \* the number of bytes of the stream delivered so far
  cutInTrailer,          \* history: a 'data' event has ended inside a frame's trailer
  streamConn,            \* the connection (value of connections) the stream is sent on
  discarded,             \* history: a 'connect' event found a partial frame in the buffer
  buffer,                \* FixClient.buffer (line 685)
  messages,              \* the messages extractMessages has returned so far, in order
  body,                  \* the body handed to createFixMessage: <<key, value>> in Object.entries order
  encoded,               \* the string createFixMessage has returned
  fieldMap,              \* the fieldMap parseFixMessage has built from that string
  frame,                 \* an inbound W or X message: its fields <<tag, value>> in order
  handled,               \* handleData has run its market data branch on the frame
  queued,                \* the jobs on marketDataQueue after that, in the order added
  offered                \* history: the jobs handed to marketDataQueue.add, in order

sessionVars == <<sequenceNumber, isConnected, reconnectTimeout, reconnectAttempts,
                 client, subscribeTimers, availableCurrencyPairs, subscribedPairs,
                 currpairdetails, bootstrap, shutdown,
                 shutdownLog, written, logonResponses, logoutReceived,
                 dispatches, connections>>

candleVars == <<candleWait, candleDelayed, candleActive, candlePos, candleAdded,
                candleFailures,
                redisCandles, pgCandles, lastDelivered, computed, firstProcessed,
                candleCompleted>>

tickVars == <<tickWait, tickDelayed, tickActive, tickAdded, tickFailures,
              tickLists, tickTables, tickCached, tickCompleted, tickEnqueued, tickPushed,
              tickDropped>>

entryVars == <<frame, handled, queued, offered>>

wireVars == <<stream, delivered, cutInTrailer, streamConn, discarded, buffer, messages,
              body, encoded, fieldMap, entryVars>>

handlerVars == <<handlers, cacheOrder, candleTimeouts>>

nonSessionVars == <<candleVars, tickVars, wireVars, handlerVars>>
nonCandleVars == <<sessionVars, tickVars, wireVars, handlerVars>>
nonTickVars == <<sessionVars, candleVars, wireVars, handlerVars>>
nonWireVars == <<sessionVars, candleVars, tickVars, handlerVars>>

vars == <<sessionVars, candleVars, tickVars, wireVars, handlerVars>>

(***************************************************************************)
(* Program constants                                                       *)
(***************************************************************************)
maxReconnectAttempts == 1000
reconnectDelay == 5000
subscribeDelay == 1000
M1 == 60000
H1 == 3600000
D1 == 86400000
attempts == 3
concurrency == 5
candleConcurrency == 1

(***************************************************************************)
(* Bounds of the exploration                                               *)
(***************************************************************************)
MaxConnections == 2      \* TCP connections established in one run
MaxLogonResponses == 2   \* 35=A frames the counterparty sends on one connection
MaxPairs == 2            \* rows of the catalog table
MaxCandleJobs == 2       \* jobs added to the candle queue in one run
MaxCandleFailures == 1   \* failed attempts of candle jobs in one run
MaxCandleTimeouts == 1   \* candle job timeouts that fire in one run
MaxTickJobs == 2         \* jobs added to the tick queue in one run
MaxTickFailures == 1     \* tick job attempts made to fail in one run
MaxFrames == 2         \* frames of the stream the counterparty sends
MaxEntries == 2        \* entries of the repeating group of a W or X message

NoTimer == -1
NULL == 0
NoSym == ""
TickTypes == {"BID", "ASK"}
Symbols == {"EURUSD", "GBPUSD"}
ContractSizes == {NULL, 100000}

\* Inbound message-type codes the counterparty may send (MESSAGE_TYPES keys
\* plus one unknown code).
InboundTypes == {"0", "1", "2", "3", "4", "5", "A", "W", "X", "Z"}

Min(a, b) == IF a < b THEN a ELSE b

IsPrefix(s, t) == Len(s) <= Len(t) /\ s = SubSeq(t, 1, Len(s))

RECURSIVE SeqsUpTo(_, _)
SeqsUpTo(S, n) ==
  IF n = 0 THEN {<<>>}
  ELSE LET shorter == SeqsUpTo(S, n - 1)
       IN shorter \cup {Append(s, x) : s \in shorter, x \in S}

\* Catalog tables: rows (currpair, contractsize), one row per pair.
Catalogs ==
  {c \in SeqsUpTo([currpair : Symbols, contractsize : ContractSizes], MaxPairs) :
     \A i, j \in DOMAIN c : i # j => c[i].currpair # c[j].currpair}

RECURSIVE SelectSeqBy(_, _)
\* Array.prototype.filter over a sequence, keeping those rows whose index
\* satisfies keep.
SelectSeqBy(s, keep) ==
  IF s = <<>> THEN <<>>
  ELSE LET rest == SelectSeqBy(Tail(s), keep)
       IN IF Head(s) \in keep THEN <<Head(s)>> \o rest ELSE rest

(***************************************************************************)
(* fetchAllCurrencyPairs                                                   *)
(***************************************************************************)
\* validPairs: rows with a non-null contract size, as a set of symbols.
validPairs(rows) ==
  {rows[i].currpair : i \in {j \in DOMAIN rows : rows[j].contractsize # NULL}}

\* ensureTableExists for the BID and ASK tables of the given pairs: the
\* missing tables are created empty.
ensureTablesExist(tables, pairs) ==
  [t \in DOMAIN tables \cup (pairs \X TickTypes) |->
     IF t \in DOMAIN tables THEN tables[t] ELSE {}]

\* The query succeeds: the catalog and the subscribed set are assigned in one
\* synchronous stretch (no await between lines 267 and 286); the loop that
\* then ensures the tick tables of the valid pairs is taken in the same step.
fetchAllCurrencyPairs ==
  /\ bootstrap = "pending"
  /\ shutdown # "exit"
  /\ availableCurrencyPairs' = currpairdetails
  /\ subscribedPairs' = subscribedPairs \cup validPairs(currpairdetails)
  /\ tickTables' = ensureTablesExist(tickTables, validPairs(currpairdetails))
  /\ bootstrap' = "done"
  /\ UNCHANGED <<sequenceNumber, isConnected, reconnectTimeout, reconnectAttempts,
                 client, subscribeTimers, currpairdetails, shutdown,
                 shutdownLog, written,
                 logonResponses, logoutReceived, dispatches, connections>>
  /\ UNCHANGED <<tickWait, tickDelayed, tickActive, tickAdded, tickFailures,
                 tickLists, tickCached, tickCompleted, tickEnqueued, tickPushed,
                 tickDropped>>
  /\ UNCHANGED <<candleVars, wireVars, handlerVars>>

\* The query throws: the catch block logs, the catalog stays empty.
fetchAllCurrencyPairsFails ==
  /\ bootstrap = "pending"
  /\ shutdown # "exit"
  /\ bootstrap' = "failed"
  /\ UNCHANGED <<sequenceNumber, isConnected, reconnectTimeout, reconnectAttempts,
                 client, subscribeTimers, availableCurrencyPairs, subscribedPairs,
                 currpairdetails, shutdown,
                 shutdownLog, written, logonResponses, logoutReceived, dispatches,
                 connections>>
  /\ UNCHANGED nonSessionVars

(***************************************************************************)
(* createFixMessage: increments the counter and stamps it in tag 34.       *)
(***************************************************************************)
createFixMessage(msgType, seq) ==
  [type |-> msgType, seq |-> seq + 1, sym |-> NoSym]

(***************************************************************************)
(* subscribeToMarketData                                                   *)
(***************************************************************************)
\* The guard of line 1068.
MayDispatchUnguarded(connected) == TRUE

MayDispatch(connected) == connected

\* pairsToSubscribe (line 1076): catalog rows whose symbol is in subscribedPairs.
pairsToSubscribe(rows, subscribed) ==
  SelectSeqBy(rows, {r \in {rows[i] : i \in DOMAIN rows} : r.currpair \in subscribed})

\* The k-th request of a dispatch that starts with the counter at seq.
MarketDataRequestStale(seq, k, pair) ==
  [type |-> "V", seq |-> seq, sym |-> pair.currpair]

MarketDataRequest(seq, k, pair) ==
  [type |-> "V", seq |-> seq + k, sym |-> pair.currpair]

\* The frames written by the loop of lines 1082-1123.
MarketDataRequests(seq, pairs) ==
  [k \in 1..Len(pairs) |-> MarketDataRequest(seq, k, pairs[k])]

subscribeToMarketData ==
  /\ shutdown # "exit"
  /\ subscribeTimers # <<>>
  /\ Head(subscribeTimers) = 0
  /\ subscribeTimers' = Tail(subscribeTimers)
  /\ IF MayDispatch(isConnected)
     THEN LET pairs == pairsToSubscribe(availableCurrencyPairs, subscribedPairs)
          IN /\ written' = written \o MarketDataRequests(sequenceNumber, pairs)
             /\ sequenceNumber' = sequenceNumber + Len(pairs)
             /\ dispatches' = dispatches + 1
     ELSE UNCHANGED <<written, sequenceNumber, dispatches>>
  /\ UNCHANGED <<isConnected, reconnectTimeout, reconnectAttempts, client,
                 availableCurrencyPairs, subscribedPairs, currpairdetails,
                 bootstrap, shutdown,
                 shutdownLog, logonResponses, logoutReceived, connections>>
  /\ UNCHANGED nonSessionVars

(***************************************************************************)
(* reconnect: clears the pending timer; below the cap it counts the        *)
(* attempt, replaces the socket (initializeClient) and arms the timer;     *)
(* at the cap the socket object stays, in the state given by `left`.       *)
(***************************************************************************)
\* A variant without the cap.
reconnectUncapped(left) ==
  /\ reconnectAttempts' = reconnectAttempts + 1
  /\ client' = "idle"
  /\ reconnectTimeout' = reconnectDelay
  /\ written' = <<>>
  /\ logonResponses' = 0
  /\ logoutReceived' = FALSE
  /\ dispatches' = 0

reconnect(left) ==
  IF reconnectAttempts < maxReconnectAttempts
  THEN /\ reconnectAttempts' = reconnectAttempts + 1
       /\ client' = "idle"
       /\ reconnectTimeout' = reconnectDelay
       /\ written' = <<>>
       /\ logonResponses' = 0
       /\ logoutReceived' = FALSE
       /\ dispatches' = 0
  ELSE /\ reconnectTimeout' = NoTimer
       /\ client' = left
       /\ UNCHANGED <<reconnectAttempts, written, logonResponses, logoutReceived, dispatches>>

\* connect(): Socket.connect starts the TCP handshake.
connect ==
  /\ shutdown # "exit"
  /\ reconnectTimeout = 0
  /\ reconnectTimeout' = NoTimer
  /\ client' = "connecting"
  /\ UNCHANGED <<sequenceNumber, isConnected, reconnectAttempts, subscribeTimers,
                 availableCurrencyPairs, subscribedPairs, currpairdetails,
                 bootstrap, shutdown,
                 shutdownLog, written, logonResponses, logoutReceived, dispatches,
                 connections>>
  /\ UNCHANGED nonSessionVars

\* connect() when Socket.connect throws synchronously: the catch block calls
\* reconnect().
connectThrows ==
  /\ shutdown # "exit"
  /\ reconnectTimeout = 0
  /\ reconnect("idle")
  /\ UNCHANGED <<sequenceNumber, isConnected, subscribeTimers,
                 availableCurrencyPairs, subscribedPairs, currpairdetails,
                 bootstrap, shutdown,
                 shutdownLog, connections>>
  /\ UNCHANGED nonSessionVars

\* A connect handler that keeps the receive buffer.
bufferOnConnectKept(buf) == buf

\* this.buffer = "" (line 792).
bufferOnConnect(buf) == <<>>

handleConnect ==
  /\ shutdown # "exit"
  /\ client = "connecting"
  /\ connections < MaxConnections
  /\ connections' = connections + 1
  /\ client' = "open"
  /\ isConnected' = TRUE
  /\ reconnectAttempts' = 0
  /\ sequenceNumber' = sequenceNumber + 1
  /\ written' = Append(written, createFixMessage("A", sequenceNumber))
  /\ UNCHANGED <<reconnectTimeout, subscribeTimers, availableCurrencyPairs,
                 subscribedPairs, currpairdetails, bootstrap, shutdown,
                 shutdownLog,
                 logonResponses, logoutReceived, dispatches>>
  /\ buffer' = bufferOnConnect(buffer)
  /\ discarded' = (discarded \/ buffer # <<>>)
  /\ UNCHANGED <<stream, delivered, cutInTrailer, streamConn, messages, body,
                 encoded, fieldMap, entryVars>>
  /\ UNCHANGED <<candleVars, tickVars, handlerVars>>

\* handleData for one complete inbound frame of type t. Only the Logon branch
\* touches the session state; the W/X branch feeds the tick queue (see
\* SpecTick) and the other branches log.
handleData(t) ==
  /\ shutdown # "exit"
  /\ client \in {"open", "ended"}
  /\ IF t = "A"
     THEN /\ logonResponses < MaxLogonResponses
          /\ logonResponses' = logonResponses + 1
          /\ subscribeTimers' = Append(subscribeTimers, subscribeDelay)
     ELSE UNCHANGED <<logonResponses, subscribeTimers>>
  /\ logoutReceived' = (logoutReceived \/ t = "5")
  /\ UNCHANGED <<sequenceNumber, isConnected, reconnectTimeout, reconnectAttempts,
                 client, availableCurrencyPairs, subscribedPairs, currpairdetails,
                 bootstrap, shutdown,
                 shutdownLog, written, dispatches, connections>>
  /\ UNCHANGED nonSessionVars

handleError ==
  /\ shutdown # "exit"
  /\ client \in {"connecting", "open", "ended"}
  /\ isConnected' = FALSE
  /\ reconnect("dead")
  /\ UNCHANGED <<sequenceNumber, subscribeTimers, availableCurrencyPairs,
                 subscribedPairs, currpairdetails, bootstrap, shutdown,
                 shutdownLog, connections>>
  /\ UNCHANGED nonSessionVars

handleEnd ==
  /\ shutdown # "exit"
  /\ client \in {"open", "ended"}
  /\ isConnected' = FALSE
  /\ reconnect("dead")
  /\ UNCHANGED <<sequenceNumber, subscribeTimers, availableCurrencyPairs,
                 subscribedPairs, currpairdetails, bootstrap, shutdown,
                 shutdownLog, connections>>
  /\ UNCHANGED nonSessionVars

handleClose ==
  /\ shutdown # "exit"
  /\ client \in {"open", "ended", "dead"}
  /\ isConnected' = FALSE
  /\ reconnect("closed")
  /\ UNCHANGED <<sequenceNumber, subscribeTimers, availableCurrencyPairs,
                 subscribedPairs, currpairdetails, bootstrap, shutdown,
                 shutdownLog, connections>>
  /\ UNCHANGED nonSessionVars

(***************************************************************************)
(* SIGINT handler: disconnect() runs synchronously, the closes follow.     *)
(***************************************************************************)
\* The awaited steps that follow disconnect() in the handler, in the order
\* of lines 1147-1155.
ShutdownSteps ==
  <<"marketDataQueue.close", "candleProcessingQueue.close", "redisClient.quit",
    "pgPool.end", "process.exit">>

disconnect ==
  /\ shutdown = "run"
  /\ shutdown' = "closing"
  /\ IF isConnected
     THEN /\ written' = Append(written, createFixMessage("5", sequenceNumber))
          /\ sequenceNumber' = sequenceNumber + 1
          /\ shutdownLog' = <<"write Logout", "client.end">>
     ELSE /\ UNCHANGED <<written, sequenceNumber>>
          /\ shutdownLog' = <<"client.end">>
  /\ client' = IF client = "open" THEN "ended" ELSE client
  /\ UNCHANGED <<isConnected, reconnectTimeout, reconnectAttempts, subscribeTimers,
                 availableCurrencyPairs, subscribedPairs, currpairdetails,
                 bootstrap, logonResponses, logoutReceived, dispatches, connections>>
  /\ UNCHANGED nonSessionVars

\* The queues, the cache and the pool are closed and process.exit(0) runs:
\* the rest of the handler in one step.
processExit ==
  /\ shutdown = "closing"
  /\ shutdownLog[Len(shutdownLog)] = "client.end"
  /\ shutdown' = "exit"
  /\ shutdownLog' = shutdownLog \o ShutdownSteps
  /\ UNCHANGED <<sequenceNumber, isConnected, reconnectTimeout, reconnectAttempts,
                 client, subscribeTimers, availableCurrencyPairs, subscribedPairs,
                 currpairdetails, bootstrap, written, logonResponses, logoutReceived,
                 dispatches, connections>>
  /\ UNCHANGED nonSessionVars

\* The handler step by step. The promise of step k (1..4) resolves: the
\* handler goes on after its await, or, for pgPool.end, the then-callback
\* is due.
shutdownStepResolves(k) ==
  /\ shutdown = "closing"
  /\ shutdownLog[Len(shutdownLog)] =
       (IF k = 1 THEN "client.end" ELSE ShutdownSteps[k - 1])
  /\ shutdownLog' = Append(shutdownLog, ShutdownSteps[k])
  /\ UNCHANGED <<sequenceNumber, isConnected, reconnectTimeout, reconnectAttempts,
                 client, subscribeTimers, availableCurrencyPairs, subscribedPairs,
                 currpairdetails, bootstrap, shutdown, written, logonResponses,
                 logoutReceived, dispatches, connections>>
  /\ UNCHANGED nonSessionVars

\* The promise of the step under way rejects: the handler ends there (an
\* unhandled rejection), nothing after it runs.
shutdownStepRejects ==
  /\ shutdown = "closing"
  /\ shutdownLog[Len(shutdownLog)] # "pgPool.end"
  /\ shutdown' = "aborted"
  /\ UNCHANGED <<sequenceNumber, isConnected, reconnectTimeout, reconnectAttempts,
                 client, subscribeTimers, availableCurrencyPairs, subscribedPairs,
                 currpairdetails, bootstrap, shutdownLog, written, logonResponses,
                 logoutReceived, dispatches, connections>>
  /\ UNCHANGED nonSessionVars

\* The then-callback of pgPool.end() may run: the pool has ended.
MayExitUnchained(log) == log[Len(log)] \in {"redisClient.quit", "pgPool.end"}

MayExit(log) == log[Len(log)] = "pgPool.end"

\* The then-callback of pgPool.end(): process.exit(0).
processExitCallback ==
  /\ shutdown = "closing"
  /\ MayExit(shutdownLog)
  /\ shutdown' = "exit"
  /\ shutdownLog' = Append(shutdownLog, "process.exit")
  /\ UNCHANGED <<sequenceNumber, isConnected, reconnectTimeout, reconnectAttempts,
                 client, subscribeTimers, availableCurrencyPairs, subscribedPairs,
                 currpairdetails, bootstrap, written, logonResponses, logoutReceived,
                 dispatches, connections>>
  /\ UNCHANGED nonSessionVars

(***************************************************************************)
(* Time. Timers hold the ms left; a timer fires at 0, and time advances    *)
(* to the next deadline only when no timer is due.                         *)
(***************************************************************************)
PendingTimes ==
  {subscribeTimers[i] : i \in DOMAIN subscribeTimers}
    \cup (IF reconnectTimeout = NoTimer THEN {} ELSE {reconnectTimeout})

advanceTime ==
  /\ shutdown # "exit"
  /\ PendingTimes # {}
  /\ 0 \notin PendingTimes
  /\ LET d == CHOOSE x \in PendingTimes : \A y \in PendingTimes : x <= y
     IN /\ subscribeTimers' = [i \in DOMAIN subscribeTimers |-> subscribeTimers[i] - d]
        /\ reconnectTimeout' =
             IF reconnectTimeout = NoTimer THEN NoTimer ELSE reconnectTimeout - d
  /\ UNCHANGED <<sequenceNumber, isConnected, reconnectAttempts, client,
                 availableCurrencyPairs, subscribedPairs, currpairdetails,
                 bootstrap, shutdown,
                 shutdownLog, written, logonResponses, logoutReceived, dispatches,
                 connections>>
  /\ UNCHANGED nonSessionVars

(***************************************************************************)
(* Candle engine: candleProcessingQueue.process                            *)
(***************************************************************************)
Max(a, b) == IF a > b THEN a ELSE b

\* Object.keys(defaultTimeFrames), in insertion order.
timeFrameKeys == <<"M1", "H1", "D1">>

defaultTimeFrames(timeframe) ==
  CASE timeframe = "M1" -> M1
    [] timeframe = "H1" -> H1
    [] timeframe = "D1" -> D1

\* Math.round(T / D) * D: the nearest boundary instead of the bucket start.
candleTimeMsRounded(T, D) == ((T + D \div 2) \div D) * D

\* Math.floor(timestamp.getTime() / timeframeDuration) * timeframeDuration
candleTimeMs(T, D) == (T \div D) * D

\* The cache key candle_{symbol}_{timeframe}_{candleTime} and, with the table
\* candles_{symbol}_bid, the primary key (candlesize, lots = 1, candletime).
candleKey(symbol, timeframe, T) ==
  <<symbol, timeframe, candleTimeMs(T, defaultTimeFrames(timeframe))>>

newCandle(price) ==
  [open |-> price, high |-> price, low |-> price, close |-> price]

\* An update that only moves close.
updatedCandleCloseOnly(currentCandle, price) ==
  [currentCandle EXCEPT !.close = price]

\* An update whose low is taken against the high.
updatedCandleLowOfHigh(currentCandle, price) ==
  [currentCandle EXCEPT !.high = Max(currentCandle.high, price),
                        !.low = Min(currentCandle.high, price),
                        !.close = price]

\* {...currentCandle, high: Math.max(..), low: Math.min(..), close: price}
updatedCandle(currentCandle, price) ==
  [currentCandle EXCEPT !.high = Max(currentCandle.high, price),
                        !.low = Min(currentCandle.low, price),
                        !.close = price]

\* Cache path, lines 522-551: read the key, update or create, write back.
cachePath(redis, key, price) ==
  [k \in DOMAIN redis \cup {key} |->
     IF k # key THEN redis[k]
     ELSE IF key \in DOMAIN redis THEN updatedCandle(redis[key], price)
     ELSE newCandle(price)]

\* An UPDATE that overwrites high, low and close with the tick's price.
updateQueryOverwrite(row, price) ==
  [row EXCEPT !.high = price, !.low = price, !.close = price]

\* UPDATE ... SET high = GREATEST(high, $1), low = LEAST(low, $2), close = $3
updateQuery(row, price) ==
  [row EXCEPT !.high = Max(row.high, price),
              !.low = Min(row.low, price),
              !.close = price]

\* Durable path, lines 554-610: SELECT by primary key, then UPDATE or INSERT.
durablePath(pg, key, price) ==
  [k \in DOMAIN pg \cup {key} |->
     IF k # key THEN pg[k]
     ELSE IF key \in DOMAIN pg THEN updateQuery(pg[key], price)
     ELSE newCandle(price)]

\* The processor's positions: 2i-1 is the cache path and 2i the durable path
\* of the i-th timeframe; 7 is the return after the loop.
ReturnPos == 2 * Len(timeFrameKeys) + 1
TimeframeAt(pos) == timeFrameKeys[(pos + 1) \div 2]

\* One position of the processor applied to the pair <<cache, durable>>.
processStep(state, pos, tickData) ==
  LET key == candleKey(tickData.symbol, TimeframeAt(pos), tickData.timestamp)
  IN IF pos % 2 = 1
     THEN <<cachePath(state[1], key, tickData.price), state[2]>>
     ELSE <<state[1], durablePath(state[2], key, tickData.price)>>

RECURSIVE processFrom(_, _, _)
\* The processor run from position pos to its return, no step failing.
processFrom(state, pos, tickData) ==
  IF pos >= ReturnPos THEN state
  ELSE processFrom(processStep(state, pos, tickData), pos + 1, tickData)

processJob(state, tickData) == processFrom(state, 1, tickData)

\* Ticks the tick pipeline hands over (processTickForCandles): prices in units
\* of 0.00001, tick times in ms on both sides of a bucket boundary.
CandleSymbols == {"EURUSD"}
Prices == {109990, 110000, 110050}
TickTimes == {59999, 60000}
TickData == [symbol : CandleSymbols, price : Prices, timestamp : TickTimes]

BucketsOf(tickData) ==
  {candleKey(tickData.symbol, timeFrameKeys[i], tickData.timestamp) :
     i \in DOMAIN timeFrameKeys}

\* processTickForCandles: candleProcessingQueue.add. A job on the queue holds
\* Bull's id and attemptsMade, the payload, and (history) whether a failed
\* attempt had passed every path of every timeframe.
processTickForCandles(tickData) ==
  /\ candleAdded' = candleAdded + 1
  /\ candleWait' = Append(candleWait,
       [id |-> candleAdded + 1, tickData |-> tickData, attemptsMade |-> 0,
        ranThrough |-> FALSE])
  /\ lastDelivered' =
       [k \in DOMAIN lastDelivered \cup BucketsOf(tickData) |->
          IF k \in BucketsOf(tickData) THEN tickData.price ELSE lastDelivered[k]]
  /\ UNCHANGED <<candleDelayed, candleActive, candlePos, redisCandles, pgCandles,
                 computed, firstProcessed>>
  /\ UNCHANGED candleCompleted
  /\ UNCHANGED candleFailures

\* The tick worker hands a BID tick to the candle engine.
deliverTick(tickData) ==
  /\ candleAdded < MaxCandleJobs
  /\ processTickForCandles(tickData)
  /\ UNCHANGED nonCandleVars

\* The worker (concurrency 1) takes the job at the head of the wait list.
candleJobStart ==
  /\ candleActive = <<>>
  /\ candleWait # <<>>
  /\ candleActive' = <<Head(candleWait)>>
  /\ candleWait' = Tail(candleWait)
  /\ candlePos' = 1
  /\ UNCHANGED <<candleDelayed, candleAdded, redisCandles, pgCandles,
                 lastDelivered, computed, firstProcessed>>
  /\ UNCHANGED candleCompleted
  /\ UNCHANGED candleFailures
  /\ UNCHANGED nonCandleVars

\* The awaited cache or durable operation of the current position succeeds.
candleJobStep ==
  /\ candleActive # <<>>
  /\ candlePos < ReturnPos
  /\ LET tickData == candleActive[1].tickData
         timeframe == TimeframeAt(candlePos)
         next == processStep(<<redisCandles, pgCandles>>, candlePos, tickData)
     IN /\ redisCandles' = next[1]
        /\ pgCandles' = next[2]
        /\ computed' = computed \cup
             {<<tickData.timestamp, timeframe,
                candleTimeMs(tickData.timestamp, defaultTimeFrames(timeframe))>>}
        /\ LET key == candleKey(tickData.symbol, timeframe, tickData.timestamp)
           IN firstProcessed' =
                IF key \in DOMAIN firstProcessed THEN firstProcessed
                ELSE [k \in DOMAIN firstProcessed \cup {key} |->
                        IF k = key THEN tickData.price ELSE firstProcessed[k]]
  /\ candlePos' = candlePos + 1
  /\ UNCHANGED <<candleWait, candleDelayed, candleActive, candleAdded, lastDelivered>>
  /\ UNCHANGED candleCompleted
  /\ UNCHANGED candleFailures
  /\ UNCHANGED nonCandleVars

\* The processor returns: the job completes and is removed (removeOnComplete).
candleJobReturn ==
  /\ candleActive # <<>>
  /\ candlePos = ReturnPos
  /\ candleActive' = <<>>
  /\ candlePos' = 0
  /\ candleCompleted' = Append(candleCompleted, candleActive[1])
  /\ UNCHANGED <<candleWait, candleDelayed, candleAdded, redisCandles, pgCandles,
                 lastDelivered, computed, firstProcessed>>
  /\ UNCHANGED candleFailures
  /\ UNCHANGED nonCandleVars

\* The awaited operation of the current position throws (or the job's reply is
\* lost after the last write): the job fails; it is delayed for a retry while
\* attempts are left and dropped otherwise.
candleJobFail ==
  /\ candleActive # <<>>
  /\ candleFailures < MaxCandleFailures
  /\ candleFailures' = candleFailures + 1
  /\ LET job == [candleActive[1] EXCEPT !.attemptsMade = @ + 1,
                                        !.ranThrough = @ \/ candlePos = ReturnPos]
     IN candleDelayed' =
          IF job.attemptsMade < attempts THEN candleDelayed \cup {job}
          ELSE candleDelayed
  /\ candleActive' = <<>>
  /\ candlePos' = 0
  /\ UNCHANGED <<candleWait, candleAdded, redisCandles, pgCandles, lastDelivered,
                 computed, firstProcessed>>
  /\ UNCHANGED candleCompleted
  /\ UNCHANGED nonCandleVars

\* The backoff of a delayed job elapses: it goes back to the wait list.
candleJobRetry ==
  /\ \E job \in candleDelayed :
       /\ candleDelayed' = candleDelayed \ {job}
       /\ \E k \in 0..Len(candleWait) :
            candleWait' = SubSeq(candleWait, 1, k) \o <<job>>
                            \o SubSeq(candleWait, k + 1, Len(candleWait))
  /\ UNCHANGED <<candleActive, candlePos, candleAdded, redisCandles, pgCandles,
                 lastDelivered, computed, firstProcessed>>
  /\ UNCHANGED candleCompleted
  /\ UNCHANGED candleFailures
  /\ UNCHANGED nonCandleVars

(***************************************************************************)
(* The candle processor await by await. Bull runs one invocation at a time *)
(* (process() without a concurrency argument), and fails a job whose       *)
(* invocation has not settled after the job's timeout (30000, line 112)    *)
(* without stopping the invocation: the job is retried or dropped and the  *)
(* worker takes the next job while the async function goes on.             *)
(***************************************************************************)
\* The positions of an invocation: for the i-th timeframe 4i-3 is the cache
\* GET, 4i-2 the cache SET, 4i-1 the durable SELECT and 4i the durable
\* UPDATE or INSERT; 13 is the return after the loop.
HandlerReturnPos == 4 * Len(timeFrameKeys) + 1

AtGet(h) == h.pos < HandlerReturnPos /\ (h.pos - 1) % 4 = 0
AtSet(h) == h.pos < HandlerReturnPos /\ (h.pos - 1) % 4 = 1
AtSelect(h) == h.pos < HandlerReturnPos /\ (h.pos - 1) % 4 = 2
AtWrite(h) == h.pos < HandlerReturnPos /\ (h.pos - 1) % 4 = 3

KeyAt(h) ==
  candleKey(h.job.tickData.symbol, timeFrameKeys[(h.pos - 1) \div 4 + 1],
            h.job.tickData.timestamp)

HandlerId(h) == <<h.job.id, h.job.attemptsMade>>

\* The invocations Bull counts as running: those of jobs it has not failed.
ActiveHandlers == {h \in handlers : ~h.timedOut}

\* What a read returns: <<>> when the key or row is absent.
lookup(store, key) == IF key \in DOMAIN store THEN <<store[key]>> ELSE <<>>

Moved(h, held) ==
  (handlers \ {h}) \cup {[h EXCEPT !.pos = @ + 1, !.held = held]}

\* Bull fails the job of an invocation: delayed for a retry while attempts
\* are left, dropped otherwise.
jobFailed(job) ==
  LET failed == [job EXCEPT !.attemptsMade = @ + 1]
  IN candleDelayed' = IF failed.attemptsMade < attempts
                      THEN candleDelayed \cup {failed} ELSE candleDelayed

\* The worker takes the job at the head of the wait list when fewer than
\* candleConcurrency invocations count as running. The invocation runs up to
\* its first await: the GET of the first timeframe is sent.
handlerStart ==
  /\ Cardinality(ActiveHandlers) < candleConcurrency
  /\ candleWait # <<>>
  /\ handlers' = handlers \cup
       {[job |-> Head(candleWait), pos |-> 1, held |-> <<>>, timedOut |-> FALSE]}
  /\ candleWait' = Tail(candleWait)
  /\ cacheOrder' = Append(cacheOrder, <<Head(candleWait).id, Head(candleWait).attemptsMade>>)
  /\ UNCHANGED <<candleTimeouts, candleDelayed, redisCandles, pgCandles,
                 candleCompleted>>
  /\ UNCHANGED <<candleActive, candlePos, candleAdded, candleFailures,
                   lastDelivered, computed, firstProcessed>>
  /\ UNCHANGED <<sessionVars, tickVars, wireVars>>

\* redisClient.get is answered (line 520): the cache serves the commands of
\* its one connection in the order they were sent. The continuation sends
\* the SET as soon as the reply arrives.
handlerGet ==
  \E h \in handlers :
    /\ AtGet(h)
    /\ cacheOrder # <<>> /\ Head(cacheOrder) = HandlerId(h)
    /\ handlers' = Moved(h, lookup(redisCandles, KeyAt(h)))
    /\ cacheOrder' = Append(Tail(cacheOrder), HandlerId(h))
    /\ UNCHANGED <<candleTimeouts, candleWait, candleDelayed, redisCandles, pgCandles,
                   candleCompleted>>
    /\ UNCHANGED <<candleActive, candlePos, candleAdded, candleFailures,
                   lastDelivered, computed, firstProcessed>>
    /\ UNCHANGED <<sessionVars, tickVars, wireVars>>

\* redisClient.set of the candle computed from what the GET returned is
\* served (lines 522-551); the SELECT is sent.
handlerSet ==
  \E h \in handlers :
    /\ AtSet(h)
    /\ cacheOrder # <<>> /\ Head(cacheOrder) = HandlerId(h)
    /\ redisCandles' =
         [k \in DOMAIN redisCandles \cup {KeyAt(h)} |->
            IF k # KeyAt(h) THEN redisCandles[k]
            ELSE IF h.held = <<>> THEN newCandle(h.job.tickData.price)
            ELSE updatedCandle(h.held[1], h.job.tickData.price)]
    /\ handlers' = Moved(h, <<>>)
    /\ cacheOrder' = Tail(cacheOrder)
    /\ UNCHANGED <<candleTimeouts, candleWait, candleDelayed, pgCandles,
                   candleCompleted>>
    /\ UNCHANGED <<candleActive, candlePos, candleAdded, candleFailures,
                   lastDelivered, computed, firstProcessed>>
    /\ UNCHANGED <<sessionVars, tickVars, wireVars>>

\* The SELECT by primary key returns (lines 554-565).
handlerSelect ==
  \E h \in handlers :
    /\ AtSelect(h)
    /\ handlers' = Moved(h, lookup(pgCandles, KeyAt(h)))
    /\ UNCHANGED <<cacheOrder, candleTimeouts, candleWait, candleDelayed,
                   redisCandles, pgCandles, candleCompleted>>
    /\ UNCHANGED <<candleActive, candlePos, candleAdded, candleFailures,
                   lastDelivered, computed, firstProcessed>>
    /\ UNCHANGED <<sessionVars, tickVars, wireVars>>

\* The UPDATE, when the SELECT returned a row, or the INSERT, when it
\* returned none and no row has been inserted since (lines 567-608). The
\* loop goes on: the GET of the next timeframe is sent.
handlerWrite ==
  \E h \in handlers :
    /\ AtWrite(h)
    /\ h.held = <<>> => KeyAt(h) \notin DOMAIN pgCandles
    /\ pgCandles' =
         [k \in DOMAIN pgCandles \cup {KeyAt(h)} |->
            IF k # KeyAt(h) THEN pgCandles[k]
            ELSE IF h.held = <<>> THEN newCandle(h.job.tickData.price)
            ELSE updateQuery(pgCandles[k], h.job.tickData.price)]
    /\ handlers' = Moved(h, <<>>)
    /\ cacheOrder' = IF h.pos + 1 < HandlerReturnPos
                     THEN Append(cacheOrder, HandlerId(h)) ELSE cacheOrder
    /\ UNCHANGED <<candleTimeouts, candleWait, candleDelayed,
                   redisCandles, candleCompleted>>
    /\ UNCHANGED <<candleActive, candlePos, candleAdded, candleFailures,
                   lastDelivered, computed, firstProcessed>>
    /\ UNCHANGED <<sessionVars, tickVars, wireVars>>

\* The INSERT violates the primary key: another invocation has inserted the
\* row since the SELECT. The processor rethrows (lines 611-617).
handlerInsertConflicts ==
  \E h \in handlers :
    /\ AtWrite(h)
    /\ h.held = <<>>
    /\ KeyAt(h) \in DOMAIN pgCandles
    /\ handlers' = handlers \ {h}
    /\ IF h.timedOut THEN UNCHANGED candleDelayed ELSE jobFailed(h.job)
    /\ UNCHANGED <<cacheOrder, candleTimeouts, candleWait, redisCandles, pgCandles,
                   candleCompleted>>
    /\ UNCHANGED <<candleActive, candlePos, candleAdded, candleFailures,
                   lastDelivered, computed, firstProcessed>>
    /\ UNCHANGED <<sessionVars, tickVars, wireVars>>

\* The processor returns (line 620): the job completes, unless Bull has
\* failed it already.
handlerReturn ==
  \E h \in handlers :
    /\ h.pos = HandlerReturnPos
    /\ handlers' = handlers \ {h}
    /\ candleCompleted' =
         IF h.timedOut THEN candleCompleted ELSE Append(candleCompleted, h.job)
    /\ UNCHANGED <<cacheOrder, candleTimeouts, candleWait, candleDelayed,
                   redisCandles, pgCandles>>
    /\ UNCHANGED <<candleActive, candlePos, candleAdded, candleFailures,
                   lastDelivered, computed, firstProcessed>>
    /\ UNCHANGED <<sessionVars, tickVars, wireVars>>

\* The job's timeout fires while its invocation awaits: Bull fails the job;
\* the invocation goes on.
handlerTimeout ==
  \E h \in ActiveHandlers :
    /\ h.pos < HandlerReturnPos
    /\ candleTimeouts < MaxCandleTimeouts
    /\ candleTimeouts' = candleTimeouts + 1
    /\ handlers' = (handlers \ {h}) \cup {[h EXCEPT !.timedOut = TRUE]}
    /\ jobFailed(h.job)
    /\ UNCHANGED <<cacheOrder, candleWait, redisCandles, pgCandles, candleCompleted>>
    /\ UNCHANGED <<candleActive, candlePos, candleAdded, candleFailures,
                   lastDelivered, computed, firstProcessed>>
    /\ UNCHANGED <<sessionVars, tickVars, wireVars>>



(***************************************************************************)
(* Tick pipeline: marketDataQueue.process                                  *)
(***************************************************************************)
\* Market data entries the session engine enqueues: prices in units of
\* 0.00001; quantities that round to the same and to different lots.
Entries ==
  {[price |-> 110000, quantity |-> 100000],
   [price |-> 110050, quantity |-> 140000],
   [price |-> 110000, quantity |-> 200000]}
MarketDataMessages ==
  {[symbol |-> symbol, type |-> type, price |-> e.price, quantity |-> e.quantity] :
     symbol \in CandleSymbols, type \in TickTypes, e \in Entries}

\* A variant that falls back to a contract size of 100000.
getContractSizeDefault(symbol) == 100000

\* getContractSize: the first in-memory row of the symbol if its contract
\* size is not null, else the first row the catalog table returns for the
\* symbol if its contract size is not null; NULL stands for the throw when
\* neither gives one.
getContractSize(symbol) ==
  LET inMemory == {i \in DOMAIN availableCurrencyPairs :
                     availableCurrencyPairs[i].currpair = symbol}
      inTable == {i \in DOMAIN currpairdetails :
                    currpairdetails[i].currpair = symbol}
      pairInfo == CHOOSE i \in inMemory : \A j \in inMemory : i <= j
      row == CHOOSE i \in inTable : \A j \in inTable : i <= j
  IN IF inMemory # {} /\ availableCurrencyPairs[pairInfo].contractsize # NULL
     THEN availableCurrencyPairs[pairInfo].contractsize
     ELSE IF inTable # {} /\ currpairdetails[row].contractsize # NULL
     THEN currpairdetails[row].contractsize
     ELSE NULL

\* calculateLots: Math.round(quantity / contractSize), halves rounded up.
calculateLots(quantity, contractSize) ==
  (2 * quantity + contractSize) \div (2 * contractSize)

tickTableName(data) == <<data.symbol, data.type>>

\* INSERT without the conflict clause on a table without the key.
insertTickNoConflict(rows, row) == rows \cup {row}

\* INSERT ... ON CONFLICT (lots) DO UPDATE: the new tick replaces the row.
insertTickDoUpdate(rows, row) ==
  {r \in rows : r.lots # row.lots} \cup {row}

\* INSERT ... ON CONFLICT (lots) DO NOTHING on a table with PRIMARY KEY lots.
insertTick(rows, row) ==
  IF \E r \in rows : r.lots = row.lots THEN rows ELSE rows \cup {row}

\* The positions of the tick processor.
AtGetContractSize == 1
AtTableCheck == 2
AtCreateTable == 3
AtRPush == 4
AtInsert == 5
AtCandles == 6
AtReturn == 7

RECURSIVE cachedPairs(_, _)
\* The pairs the loop of cacheCandlesAndTicks reaches: the rows in order, up
\* to the first pair one of whose tick tables is missing (its SELECT throws,
\* which ends the loop).
cachedPairs(rows, tables) ==
  IF rows = <<>> THEN {}
  ELSE IF ({Head(rows).currpair} \X TickTypes) \subseteq DOMAIN tables
  THEN {Head(rows).currpair} \cup cachedPairs(Tail(rows), tables)
  ELSE {}

\* SELECT * FROM candles_{sym}_bid: the rows of the symbol's candle table.
candleRows(symbol) ==
  {<<k, pgCandles[k]>> : k \in {c \in DOMAIN pgCandles : c[1] = symbol}}

\* cacheCandlesAndTicks, the last step of initDatabase: for each pair of the
\* catalog table the rows of its BID and ASK tables are SET, as one string,
\* on the keys the workers push to, and the rows of its candle table on the
\* key candles_{sym} (here <<sym, "CANDLES">>).
cacheCandlesAndTicks ==
  /\ bootstrap = "done"
  /\ ~tickCached
  /\ tickCached' = TRUE
  /\ LET reached == cachedPairs(currpairdetails, tickTables)
         keys == reached \X (TickTypes \cup {"CANDLES"})
     IN tickLists' =
          [k \in DOMAIN tickLists \cup keys |->
             IF k \notin keys THEN tickLists[k]
             ELSE IF k[2] = "CANDLES"
             THEN [type |-> "string", value |-> candleRows(k[1])]
             ELSE [type |-> "string", value |-> tickTables[k]]]
  /\ UNCHANGED <<tickWait, tickDelayed, tickActive, tickAdded, tickFailures,
                 tickTables, tickCompleted, tickEnqueued, tickPushed,
                 tickDropped>>
  /\ UNCHANGED nonTickVars

\* handleData on a market data frame: marketDataQueue.add for a BID or ASK
\* entry.
marketDataQueueAdd(data) ==
  /\ tickAdded < MaxTickJobs
  /\ tickAdded' = tickAdded + 1
  /\ tickWait' = Append(tickWait,
       [id |-> tickAdded + 1, data |-> data, attemptsMade |-> 0])
  /\ tickEnqueued' = Append(tickEnqueued, 0)
  /\ tickPushed' = Append(tickPushed, 0)
  /\ UNCHANGED <<tickDelayed, tickActive, tickFailures, tickLists, tickTables,
                 tickCached, tickCompleted,
                 tickDropped>>
  /\ UNCHANGED nonTickVars

\* A free worker (of concurrency 5) takes the job at the head of the wait
\* list.
tickJobStart ==
  /\ Cardinality(tickActive) < concurrency
  /\ tickWait # <<>>
  /\ tickActive' = tickActive \cup
       {[job |-> Head(tickWait), pos |-> AtGetContractSize, lots |-> NULL,
         ticktime |-> NULL, exists |-> FALSE]}
  /\ tickWait' = Tail(tickWait)
  /\ UNCHANGED <<tickDelayed, tickAdded, tickFailures, tickLists, tickTables,
                   tickCached, tickCompleted, tickEnqueued, tickPushed,
                 tickDropped>>
  /\ UNCHANGED nonTickVars

\* getContractSize returns; lots and ticktime (the clock's date with the
\* entry's time of day) are computed.
tickGetContractSize ==
  \E w \in tickActive, now \in TickTimes :
    /\ w.pos = AtGetContractSize
    /\ getContractSize(w.job.data.symbol) # NULL
    /\ tickActive' = (tickActive \ {w}) \cup
         {[w EXCEPT !.pos = AtTableCheck,
                    !.lots = calculateLots(w.job.data.quantity,
                                           getContractSize(w.job.data.symbol)),
                    !.ticktime = now]}
    /\ UNCHANGED <<tickWait, tickDelayed, tickAdded, tickFailures, tickLists, tickTables,
                   tickCached, tickCompleted, tickEnqueued, tickPushed,
                 tickDropped>>
    /\ UNCHANGED nonTickVars

\* After a failure the job is delayed for a retry while attempts are left and
\* dropped otherwise.
tickJobFailed(w) ==
  /\ tickActive' = tickActive \ {w}
  /\ LET job == [w.job EXCEPT !.attemptsMade = @ + 1]
     IN IF job.attemptsMade < attempts
        THEN tickDelayed' = tickDelayed \cup {job} /\ UNCHANGED tickDropped
        ELSE tickDropped' = tickDropped \cup {job} /\ UNCHANGED tickDelayed

\* getContractSize throws: neither the in-memory catalog nor the catalog
\* table has a contract size for the symbol; the processor rethrows.
tickGetContractSizeThrows ==
  \E w \in tickActive :
    /\ w.pos = AtGetContractSize
    /\ getContractSize(w.job.data.symbol) = NULL
    /\ tickJobFailed(w)
    /\ UNCHANGED <<tickWait, tickAdded, tickFailures, tickLists, tickTables,
                   tickCached, tickCompleted, tickEnqueued, tickPushed>>
    /\ UNCHANGED nonTickVars

\* ensureTableExists: the information_schema query returns.
tickTableCheck ==
  \E w \in tickActive :
    /\ w.pos = AtTableCheck
    /\ LET exists == tickTableName(w.job.data) \in DOMAIN tickTables
       IN tickActive' = (tickActive \ {w}) \cup
            {[w EXCEPT !.exists = exists,
                       !.pos = IF exists THEN AtRPush ELSE AtCreateTable]}
    /\ UNCHANGED <<tickWait, tickDelayed, tickAdded, tickFailures, tickLists, tickTables,
                   tickCached, tickCompleted, tickEnqueued, tickPushed,
                 tickDropped>>
    /\ UNCHANGED nonTickVars

\* ensureTableExists: CREATE TABLE succeeds.
tickCreateTable ==
  \E w \in tickActive :
    /\ w.pos = AtCreateTable
    /\ tickTableName(w.job.data) \notin DOMAIN tickTables
    /\ tickTables' =
         [t \in DOMAIN tickTables \cup {tickTableName(w.job.data)} |->
            IF t \in DOMAIN tickTables THEN tickTables[t] ELSE {}]
    /\ tickActive' = (tickActive \ {w}) \cup {[w EXCEPT !.pos = AtRPush]}
    /\ UNCHANGED <<tickWait, tickDelayed, tickAdded, tickFailures, tickLists,
                   tickCached, tickCompleted, tickEnqueued, tickPushed,
                 tickDropped>>
    /\ UNCHANGED nonTickVars

\* ensureTableExists: CREATE TABLE throws because another worker has created
\* the table since the check; the processor rethrows.
tickCreateTableFails ==
  \E w \in tickActive :
    /\ w.pos = AtCreateTable
    /\ tickTableName(w.job.data) \in DOMAIN tickTables
    /\ tickJobFailed(w)
    /\ UNCHANGED <<tickWait, tickAdded, tickFailures, tickLists, tickTables,
                   tickCached, tickCompleted, tickEnqueued, tickPushed>>
    /\ UNCHANGED nonTickVars

\* redisClient.rPush of the tick: the key is absent or holds a list.
tickRPush ==
  \E w \in tickActive :
    /\ w.pos = AtRPush
    /\ LET key == tickTableName(w.job.data)
           tick == [ticktime |-> w.ticktime, lots |-> w.lots,
                    price |-> w.job.data.price]
       IN /\ key \in DOMAIN tickLists => tickLists[key].type = "list"
          /\ tickLists' =
               [k \in DOMAIN tickLists \cup {key} |->
                  IF k # key THEN tickLists[k]
                  ELSE IF key \in DOMAIN tickLists
                  THEN [type |-> "list", value |-> Append(tickLists[key].value, tick)]
                  ELSE [type |-> "list", value |-> <<tick>>]]
    /\ tickActive' = (tickActive \ {w}) \cup {[w EXCEPT !.pos = AtInsert]}
    /\ tickPushed' = [tickPushed EXCEPT ![w.job.id] = @ + 1]
    /\ UNCHANGED <<tickWait, tickDelayed, tickAdded, tickFailures, tickTables,
                   tickCached, tickCompleted, tickEnqueued,
                 tickDropped>>
    /\ UNCHANGED nonTickVars

\* redisClient.rPush throws: the key holds the string cacheCandlesAndTicks
\* has set; the processor rethrows.
tickRPushFails ==
  \E w \in tickActive :
    /\ w.pos = AtRPush
    /\ tickTableName(w.job.data) \in DOMAIN tickLists
    /\ tickLists[tickTableName(w.job.data)].type = "string"
    /\ tickJobFailed(w)
    /\ UNCHANGED <<tickWait, tickAdded, tickFailures, tickLists, tickTables,
                   tickCached, tickCompleted, tickEnqueued, tickPushed>>
    /\ UNCHANGED nonTickVars

\* The INSERT into the tick table.
tickInsert ==
  \E w \in tickActive :
    /\ w.pos = AtInsert
    /\ LET table == tickTableName(w.job.data)
           row == [ticktime |-> w.ticktime, lots |-> w.lots,
                   price |-> w.job.data.price]
       IN tickTables' = [tickTables EXCEPT ![table] = insertTick(@, row)]
    /\ tickActive' = (tickActive \ {w}) \cup
         {[w EXCEPT !.pos = IF w.job.data.type = "BID" THEN AtCandles
                             ELSE AtReturn]}
    /\ UNCHANGED <<tickWait, tickDelayed, tickAdded, tickFailures, tickLists,
                   tickCached, tickCompleted, tickEnqueued, tickPushed,
                 tickDropped>>
    /\ UNCHANGED nonTickVars

\* A BID tick is handed to the candle engine.
tickCandles ==
  \E w \in tickActive :
    /\ w.pos = AtCandles
    /\ processTickForCandles([symbol |-> w.job.data.symbol,
                              price |-> w.job.data.price,
                              timestamp |-> w.ticktime])
    /\ tickEnqueued' = [tickEnqueued EXCEPT ![w.job.id] = @ + 1]
    /\ UNCHANGED tickPushed
    /\ tickActive' = (tickActive \ {w}) \cup {[w EXCEPT !.pos = AtReturn]}
    /\ UNCHANGED <<tickWait, tickDelayed, tickAdded, tickFailures, tickLists,
                   tickTables, tickCached, tickCompleted,
                 tickDropped>>
    /\ UNCHANGED <<sessionVars, wireVars, handlerVars>>

\* candleProcessingQueue.add rejects: processTickForCandles catches and logs
\* (lines 245-247), and the tick processor goes on to its return.
tickCandlesFails ==
  \E w \in tickActive :
    /\ w.pos = AtCandles
    /\ tickFailures < MaxTickFailures
    /\ tickFailures' = tickFailures + 1
    /\ tickActive' = (tickActive \ {w}) \cup {[w EXCEPT !.pos = AtReturn]}
    /\ UNCHANGED <<tickWait, tickDelayed, tickAdded, tickLists, tickTables,
                   tickCached, tickCompleted, tickEnqueued, tickPushed,
                 tickDropped>>
    /\ UNCHANGED nonTickVars

\* The processor returns: the job completes and is removed.
tickJobReturn ==
  \E w \in tickActive :
    /\ w.pos = AtReturn
    /\ tickActive' = tickActive \ {w}
    /\ tickCompleted' = tickCompleted \cup {w.job}
    /\ UNCHANGED <<tickWait, tickDelayed, tickAdded, tickFailures, tickLists,
                   tickTables, tickCached, tickEnqueued, tickPushed,
                 tickDropped>>
    /\ UNCHANGED nonTickVars

\* The awaited operation of a worker's position throws (or the job's reply is
\* lost after the last step): the processor rethrows and the job fails. A
\* throw of the candle queue's add is caught (tickCandlesFails).
tickJobFail ==
  \E w \in tickActive :
    /\ w.pos # AtCandles
    /\ tickFailures < MaxTickFailures
    /\ tickFailures' = tickFailures + 1
    /\ tickJobFailed(w)
    /\ UNCHANGED <<tickWait, tickAdded, tickLists, tickTables,
                   tickCached, tickCompleted, tickEnqueued, tickPushed>>
    /\ UNCHANGED nonTickVars

\* The backoff of a delayed job elapses: it goes back to the wait list.
tickJobRetry ==
  /\ \E job \in tickDelayed :
       /\ tickDelayed' = tickDelayed \ {job}
       /\ \E k \in 0..Len(tickWait) :
            tickWait' = SubSeq(tickWait, 1, k) \o <<job>>
                          \o SubSeq(tickWait, k + 1, Len(tickWait))
  /\ UNCHANGED <<tickActive, tickAdded, tickFailures, tickLists, tickTables,
                   tickCached, tickCompleted, tickEnqueued, tickPushed,
                 tickDropped>>
  /\ UNCHANGED nonTickVars


(***************************************************************************)
(* Wire format. A string is a sequence of one-character strings; SOH is    *)
(* the field separator \u0001.                                             *)
(***************************************************************************)
SOH == "|"

\* String.prototype.indexOf's result when there is no match.
NotFound == -1

\* pattern occurs in string s at the 0-based position p.
OccursAt(s, pattern, p) ==
  /\ p + Len(pattern) <= Len(s)
  /\ \A k \in 1..Len(pattern) : s[p + k] = pattern[k]

\* String.prototype.indexOf(pattern, position), 0-based.
indexOf(s, pattern, position) ==
  LET found == {p \in position..(Len(s) - Len(pattern)) : OccursAt(s, pattern, p)}
  IN IF found = {} THEN NotFound
     ELSE CHOOSE p \in found : \A q \in found : p <= q

\* String.prototype.substring(from, to), 0-based, to exclusive; both ends
\* are clamped to the length.
substring(s, from, to) ==
  SubSeq(s, Min(from, Len(s)) + 1, Min(to, Len(s)))

BeginString == <<"8", "=", "F", "I", "X">>
delimiter == <<SOH, "1", "0", "=">>

\* The loop of extractMessages from a position of the buffer: the messages
\* found and the position reached.
RECURSIVE extractFrom(_, _, _)
extractFrom(buf, position, found) ==
  LET start == indexOf(buf, BeginString, position)
      end == indexOf(buf, delimiter, start)
      checksumEnd == end + Len(delimiter) + 3
  IN IF start = NotFound THEN [messages |-> found, position |-> position]
     ELSE IF end = NotFound THEN [messages |-> found, position |-> position]
     ELSE IF checksumEnd > Len(buf)
     THEN [messages |-> found, position |-> position]
     ELSE extractFrom(buf, checksumEnd + 1,
                      Append(found, substring(buf, start, checksumEnd + 1)))

\* extractMessages: the complete messages of the buffer and what is left of
\* the buffer.
extractMessages(buf) ==
  LET r == extractFrom(buf, 0, <<>>)
  IN [messages |-> r.messages,
      buffer |-> IF r.position > 0 THEN substring(buf, r.position, Len(buf))
                 ELSE buf]

\* A variant that scans each chunk on its own.
appendToBufferChunkOnly(buf, data) == data

\* The buffer extractMessages scans: handleData appends the chunk to it.
appendToBuffer(buf, data) == buf \o data

\* String.prototype.split(separator) for a one-character separator.
RECURSIVE split(_, _)
split(s, separator) ==
  LET at == {i \in 1..Len(s) : s[i] = separator}
  IN IF at = {} THEN <<s>>
     ELSE LET i == CHOOSE i \in at : \A j \in at : i <= j
          IN <<SubSeq(s, 1, i - 1)>> \o split(SubSeq(s, i + 1, Len(s)), separator)

\* The fields parseFixMessage keeps: [key, value] are the first two parts of
\* field.split("="), kept when both are non-empty strings.
keptField(field) ==
  LET parts == split(field, "=")
  IN Len(parts) >= 2 /\ parts[1] # <<>> /\ parts[2] # <<>>

\* parseFixMessage's fieldMap: key -> value, a later field of a key replacing
\* an earlier one.
RECURSIVE fieldMapOf(_)
fieldMapOf(fields) ==
  IF fields = <<>> THEN <<>>
  ELSE LET rest == fieldMapOf(SubSeq(fields, 1, Len(fields) - 1))
           field == fields[Len(fields)]
           parts == split(field, "=")
       IN IF keptField(field)
          THEN [k \in DOMAIN rest \cup {parts[1]} |->
                  IF k = parts[1] THEN parts[2] ELSE rest[k]]
          ELSE rest

parseFixMessage(message) == fieldMapOf(split(message, SOH))

\* The frames the counterparty sends: a Heartbeat and a market data snapshot
\* (tag 110 ends in the characters of tag 10).
Frames ==
  {<<"8", "=", "F", "I", "X", SOH, "3", "5", "=", "0", SOH,
     "1", "0", "=", "0", "1", "0", SOH>>,
   <<"8", "=", "F", "I", "X", SOH, "3", "5", "=", "W", SOH,
     "1", "1", "0", "=", "8", SOH, "1", "0", "=", "1", "0", "8", SOH>>}

RECURSIVE Concat(_)
Concat(ss) == IF ss = <<>> THEN <<>> ELSE Head(ss) \o Concat(Tail(ss))

\* The streams: concatenations of one to MaxFrames complete frames.
Streams == {Concat(fs) : fs \in SeqsUpTo(Frames, MaxFrames) \ {<<>>}}

\* The 0-based position p of the stream lies inside a trailer: after the
\* first and before the last byte of an SOH 10=NNN SOH.
InTrailer(p) ==
  \E d \in 0..(Len(stream) - Len(delimiter)) :
    /\ OccursAt(stream, delimiter, d)
    /\ d < p
    /\ p < d + Len(delimiter) + 4

\* handleData on a 'data' event carrying the next n bytes of the stream:
\* append to the buffer, extract the complete messages (each is then parsed
\* and routed).
receiveData(n) ==
  /\ LET data == SubSeq(stream, delivered + 1, delivered + n)
         r == extractMessages(appendToBuffer(buffer, data))
     IN /\ buffer' = r.buffer
        /\ messages' = messages \o r.messages
  /\ delivered' = delivered + n
  /\ cutInTrailer' = (cutInTrailer \/ InTrailer(delivered + n))
  /\ UNCHANGED <<stream, streamConn, discarded, body, encoded, fieldMap, entryVars>>
  /\ UNCHANGED nonWireVars

\* The counterparty starts to send on the connection just established: the
\* stream, and the history of what was decoded from it, are those of the
\* current connection.
serverSends ==
  /\ client = "open"
  /\ streamConn # connections
  /\ streamConn' = connections
  /\ stream' \in Streams
  /\ delivered' = 0
  /\ messages' = <<>>
  /\ UNCHANGED <<cutInTrailer, discarded, buffer, body, encoded, fieldMap, entryVars>>
  /\ UNCHANGED nonWireVars

\* A 'data' event of the current socket: the listeners of a socket are
\* removed before it is replaced (line 1036), so no bytes of an earlier
\* connection arrive once the next socket exists.
handleDataBytes(n) ==
  /\ client \in {"open", "ended"}
  /\ streamConn = connections
  /\ receiveData(n)

(***************************************************************************)
(* Encoding: createFixMessage as the string it returns.                    *)
(***************************************************************************)
\* String.prototype.charCodeAt for the characters the model uses.
CharCodes ==
  {<<SOH, 1>>, <<"-", 45>>, <<".", 46>>, <<"0", 48>>, <<"1", 49>>, <<"2", 50>>,
   <<"3", 51>>, <<"4", 52>>, <<"5", 53>>, <<"6", 54>>, <<"7", 55>>, <<"8", 56>>,
   <<"9", 57>>, <<":", 58>>, <<"=", 61>>, <<"A", 65>>, <<"F", 70>>, <<"I", 73>>,
   <<"S", 83>>, <<"T", 84>>, <<"X", 88>>, <<"p", 112>>, <<"u", 117>>, <<"w", 119>>}

charCodeAt(c) == (CHOOSE pair \in CharCodes : pair[1] = c)[2]

Digits == <<"0", "1", "2", "3", "4", "5", "6", "7", "8", "9">>

\* Number.prototype.toString of a non-negative integer.
RECURSIVE toString(_)
toString(n) ==
  IF n < 10 THEN <<Digits[n + 1]>>
  ELSE toString(n \div 10) \o <<Digits[(n % 10) + 1]>>

\* String.prototype.padStart(3, "0").
RECURSIVE padStart(_)
padStart(s) == IF Len(s) >= 3 THEN s ELSE padStart(<<"0">> \o s)

RECURSIVE sumCharCodes(_)
sumCharCodes(message) ==
  IF message = <<>> THEN 0
  ELSE charCodeAt(Head(message)) + sumCharCodes(Tail(message))

calculateChecksum(message) == padStart(toString(sumCharCodes(message) % 256))

\* Array.prototype.join.
RECURSIVE join(_, _)
join(parts, separator) ==
  IF parts = <<>> THEN <<>>
  ELSE IF Len(parts) = 1 THEN parts[1]
  ELSE parts[1] \o <<separator>> \o join(Tail(parts), separator)

SENDER_COMP_ID == <<"S">>
TARGET_COMP_ID == <<"T">>
getUTCTimestamp ==
  <<"2", "0", "2", "6", "0", "1", "0", "1", "-", "0", "0", ":", "0", "0", ":",
    "0", "0", ".", "0", "0", "0">>

\* body[35]; "undefined" is not modelled, every body has the key.
msgTypeOf(entries) ==
  (CHOOSE i \in DOMAIN entries : entries[i][1] = <<"3", "5">>)

\* key=value of one entry of the body.
keyValue(entry) == entry[1] \o <<"=">> \o entry[2]

\* The string createFixMessage returns for a body, the sequence number it
\* stamps and the clock's timestamp.
fullMessage(entries, seq, timestamp) ==
  LET others == SelectSeq(entries, LAMBDA e : e[1] # <<"3", "5">>)
      messageBody ==
        join(<<keyValue(entries[msgTypeOf(entries)]),
               <<"4", "9", "=">> \o SENDER_COMP_ID,
               <<"5", "6", "=">> \o TARGET_COMP_ID,
               <<"3", "4", "=">> \o toString(seq),
               <<"5", "2", "=">> \o timestamp>>
             \o [i \in DOMAIN others |-> keyValue(others[i])], SOH)
      bodyLength == Len(messageBody)
      message == <<"8", "=", "F", "I", "X", ".", "4", ".", "4", SOH, "9", "=">>
                   \o toString(bodyLength) \o <<SOH>> \o messageBody
      checksum == calculateChecksum(message \o <<SOH>>)
  IN message \o <<SOH, "1", "0", "=">> \o checksum \o <<SOH>>

\* The values of a body field: a plain one, the empty string, one that
\* contains '=', and a longer plain one.
Values == {<<"u">>, <<>>, <<"p", "=", "w">>, <<"p", "w">>}

\* The bodies: a Logon or a Logout, with tags 553 and 554 present or not.
Bodies ==
  {<<<<<<"3", "5">>, t>>>> \o u \o pw :
     t \in {<<"A">>, <<"5">>},
     u \in {<<>>} \cup {<<<<<<"5", "5", "3">>, v>>>> : v \in Values},
     pw \in {<<>>} \cup {<<<<<<"5", "5", "4">>, v>>>> : v \in Values}}

\* createFixMessage on the body: the counter is incremented and the string
\* returned.
encodeBody ==
  /\ encoded = <<>>
  /\ sequenceNumber' = sequenceNumber + 1
  /\ encoded' = fullMessage(body, sequenceNumber + 1, getUTCTimestamp)
  /\ UNCHANGED <<isConnected, reconnectTimeout, reconnectAttempts, client,
                 subscribeTimers, availableCurrencyPairs, subscribedPairs,
                 currpairdetails, bootstrap, shutdown,
                 shutdownLog, written, logonResponses, logoutReceived,
                 dispatches, connections>>
  /\ UNCHANGED <<stream, delivered, cutInTrailer, buffer, messages, body, fieldMap,
                 entryVars, streamConn, discarded>>
  /\ UNCHANGED <<candleVars, tickVars, handlerVars>>

\* parseFixMessage on the string createFixMessage has returned (as
\* handleConnect does with its Logon, line 806).
parseEncoded ==
  /\ encoded # <<>>
  /\ fieldMap = <<>>
  /\ fieldMap' = parseFixMessage(encoded)
  /\ UNCHANGED <<stream, delivered, cutInTrailer, buffer, messages, body, encoded,
                 entryVars, streamConn, discarded>>
  /\ UNCHANGED nonWireVars

(***************************************************************************)
(* handleData, market data branch: the repeating group of a W or X         *)
(* message. A message is the sequence of its fields <<tag, value>>, as     *)
(* message.split(SOH) and field.split("=") give them.                      *)
(***************************************************************************)
\* The fields the loops keep: if (!tag || !value) continue.
kept(field) == field[1] # "" /\ field[2] # ""

\* fieldMap[tag] || "": the value of the last kept field of the tag.
fieldValue(fields, tag) ==
  LET at == {i \in DOMAIN fields : kept(fields[i]) /\ fields[i][1] = tag}
  IN IF at = {} THEN ""
     ELSE fields[CHOOSE i \in at : \A j \in at : j <= i][2]

\* parseInt and parseFloat on the texts the model uses (prices in 1e-5).
NumberTexts ==
  {<<"0", 0>>, <<"1", 1>>, <<"2", 2>>, <<"3", 3>>, <<"4", 4>>,
   <<"100000", 100000>>, <<"1.10000", 110000>>, <<"1.10050", 110050>>}

parseNumber(text) == (CHOOSE pair \in NumberTexts : pair[1] = text)[2]

\* currentEntry[tag] = value.
withField(entry, tag, value) ==
  [k \in DOMAIN entry \cup {tag} |-> IF k = tag THEN value ELSE entry[k]]

\* The loop over rawFields (lines 863-884) and the push of the last entry
\* (887-889).
RECURSIVE collectEntries(_, _, _, _)
collectEntries(fields, mdEntries, currentEntry, inEntry) ==
  IF fields = <<>>
  THEN IF inEntry /\ DOMAIN currentEntry # {}
       THEN Append(mdEntries, currentEntry) ELSE mdEntries
  ELSE LET tag == Head(fields)[1]
           value == Head(fields)[2]
           opens == tag = "269"
           saved == IF opens /\ inEntry /\ DOMAIN currentEntry # {}
                    THEN Append(mdEntries, currentEntry) ELSE mdEntries
           started == IF opens THEN <<>> ELSE currentEntry
           nowIn == inEntry \/ opens
           collected == IF nowIn /\ tag \in {"269", "270", "271", "273"}
                        THEN withField(started, tag, value) ELSE started
       IN IF ~kept(Head(fields))
          THEN collectEntries(Tail(fields), mdEntries, currentEntry, inEntry)
          ELSE collectEntries(Tail(fields), saved, collected, nowIn)

\* The MarketDataMessage built from an entry (lines 901-927).
marketData(symbol, entry) ==
  [symbol |-> symbol,
   type |-> IF entry["269"] = "0" THEN "BID" ELSE "ASK",
   price |-> parseNumber(entry["270"]),
   quantity |-> parseNumber(IF "271" \in DOMAIN entry THEN entry["271"] ELSE "0")]

\* The entries a job is added for: entry["269"] && entry["270"], and 269 one
\* of "0", "1".
enqueued(entry) ==
  /\ "269" \in DOMAIN entry
  /\ "270" \in DOMAIN entry
  /\ entry["269"] \in {"0", "1"}

\* marketDataQueue.add with a jobId where jobs with equal ids are joined.
addJobAnyway(queue, job) == Append(queue, job)

\* marketDataQueue.add with a jobId: Bull does not add a job whose id a job
\* of the queue already has.
addJob(queue, job) ==
  IF \E i \in DOMAIN queue : queue[i].jobId = job.jobId THEN queue
  ELSE Append(queue, job)

\* The loop over mdEntries (lines 894-940). ticked[i] tells whether the
\* millisecond clock has advanced since the previous Date.now().
RECURSIVE addJobs(_, _, _, _, _)
addJobs(queue, symbol, mdEntries, ticked, now) ==
  IF mdEntries = <<>> THEN queue
  ELSE IF ~enqueued(Head(mdEntries))
  THEN addJobs(queue, symbol, Tail(mdEntries), Tail(ticked), now)
  ELSE LET data == marketData(symbol, Head(mdEntries))
           dateNow == now + (IF Head(ticked) THEN 1 ELSE 0)
           job == [jobId |-> <<symbol, data.type, dateNow>>, data |-> data]
       IN addJobs(addJob(queue, job), symbol, Tail(mdEntries), Tail(ticked),
                  dateNow)

\* The jobs the loop hands to marketDataQueue.add, in order, with the ids it
\* gives them.
RECURSIVE offeredJobs(_, _, _, _)
offeredJobs(symbol, mdEntries, ticked, now) ==
  IF mdEntries = <<>> THEN <<>>
  ELSE IF ~enqueued(Head(mdEntries))
  THEN offeredJobs(symbol, Tail(mdEntries), Tail(ticked), now)
  ELSE LET data == marketData(symbol, Head(mdEntries))
           dateNow == now + (IF Head(ticked) THEN 1 ELSE 0)
           job == [jobId |-> <<symbol, data.type, dateNow>>, data |-> data]
       IN <<job>> \o offeredJobs(symbol, Tail(mdEntries), Tail(ticked), dateNow)

\* One entry of the repeating group as it is sent: 269, 270 unless absent or
\* empty, 271.
EntryFields ==
  {<<<<"269", type>>>> \o price \o <<<<"271", "100000">>>> :
     type \in {"0", "1", "2"},
     price \in {<<>>, <<<<"270", "">>>>, <<<<"270", "1.10000">>>>,
                <<<<"270", "1.10050">>>>}}

\* The W and X messages: tag 55, tag 268 with the number of entries, and up
\* to MaxEntries entries.
MarketDataFrames ==
  {<<<<"35", type>>, <<"55", "EURUSD">>, <<"268", Digits[Len(es) + 1]>>>>
     \o Concat(es) \o <<<<"10", "000">>>> :
     type \in {"W", "X"}, es \in SeqsUpTo(EntryFields, MaxEntries) \ {<<>>}}

\* handleData on the frame, market data branch (lines 825-951).
handleMarketData ==
  /\ ~handled
  /\ handled' = TRUE
  /\ LET noMDEntries == parseNumber(IF fieldValue(frame, "268") = "" THEN "0"
                                    ELSE fieldValue(frame, "268"))
         symbol == fieldValue(frame, "55")
         mdEntries == collectEntries(frame, <<>>, <<>>, FALSE)
     IN IF noMDEntries > 0 /\ symbol # ""
        THEN \E ticked \in [1..Len(mdEntries) -> BOOLEAN] :
               /\ queued' = addJobs(queued, symbol, mdEntries, ticked, 0)
               /\ offered' = offeredJobs(symbol, mdEntries, ticked, 0)
        ELSE UNCHANGED <<queued, offered>>
  /\ UNCHANGED <<stream, delivered, cutInTrailer, buffer, messages, body, encoded,
                 fieldMap, frame, streamConn, discarded>>
  /\ UNCHANGED nonWireVars

(***************************************************************************)
(* Session specification. Init is the state after the module has loaded:   *)
(* the constructor has run (fresh socket, initDatabase started) and        *)
(* fixClient.connect() has been called.                                    *)
(***************************************************************************)
SessionInit ==
  /\ sequenceNumber = 0
  /\ isConnected = FALSE
  /\ reconnectTimeout = NoTimer
  /\ reconnectAttempts = 0
  /\ client = "connecting"
  /\ subscribeTimers = <<>>
  /\ availableCurrencyPairs = <<>>
  /\ subscribedPairs = {}
  /\ currpairdetails \in Catalogs
  /\ bootstrap = "pending"
  /\ shutdown = "run"
  /\ shutdownLog = <<>>
  /\ written = <<>>
  /\ logonResponses = 0
  /\ logoutReceived = FALSE
  /\ dispatches = 0
  /\ connections = 0

CandleInit ==
  /\ candleWait = <<>>
  /\ candleDelayed = {}
  /\ candleActive = <<>>
  /\ candlePos = 0
  /\ candleAdded = 0
  /\ candleFailures = 0
  /\ redisCandles = <<>>
  /\ pgCandles = <<>>
  /\ lastDelivered = <<>>
  /\ computed = {}
  /\ firstProcessed = <<>>
  /\ candleCompleted = <<>>
  /\ handlers = {}
  /\ cacheOrder = <<>>
  /\ candleTimeouts = 0

WireInit ==
  /\ stream = <<>>
  /\ delivered = 0
  /\ cutInTrailer = FALSE
  /\ streamConn = 0
  /\ discarded = FALSE
  /\ buffer = <<>>
  /\ messages = <<>>
  /\ body = <<>>
  /\ encoded = <<>>
  /\ fieldMap = <<>>
  /\ frame = <<>>
  /\ handled = FALSE
  /\ queued = <<>>
  /\ offered = <<>>

TickInit ==
  /\ tickWait = <<>>
  /\ tickDelayed = {}
  /\ tickActive = {}
  /\ tickAdded = 0
  /\ tickFailures = 0
  /\ tickLists = <<>>
  /\ tickTables = <<>>
  /\ tickCached = FALSE
  /\ tickCompleted = {}
  /\ tickEnqueued = <<>>
  /\ tickPushed = <<>>
  /\ tickDropped = {}

Init == SessionInit /\ CandleInit /\ TickInit /\ WireInit

Next ==
  \/ fetchAllCurrencyPairs
  \/ fetchAllCurrencyPairsFails
  \/ connect
  \/ connectThrows
  \/ handleConnect
  \/ \E t \in InboundTypes : handleData(t)
  \/ handleError
  \/ handleEnd
  \/ handleClose
  \/ subscribeToMarketData
  \/ disconnect
  \/ processExit
  \/ advanceTime

Spec == Init /\ [][Next]_vars

(***************************************************************************)
(* Shutdown specification: the session engine on its first connection,     *)
(* with the SIGINT handler run step by step, each await a point where the  *)
(* other handlers interleave. The connects of the reconnect timer are      *)
(* explored under Spec.                                                    *)
(***************************************************************************)
NextShutdown ==
  \/ fetchAllCurrencyPairs
  \/ fetchAllCurrencyPairsFails
  \/ handleConnect
  \/ \E t \in InboundTypes : handleData(t)
  \/ handleError
  \/ handleEnd
  \/ handleClose
  \/ subscribeToMarketData
  \/ disconnect
  \/ \E k \in 1..4 : shutdownStepResolves(k)
  \/ shutdownStepRejects
  \/ processExitCallback
  \/ advanceTime

SpecShutdown == Init /\ [][NextShutdown]_vars

(***************************************************************************)
(* Candle specification: the tick pipeline adds jobs, the worker runs them.*)
(* The session variables stay as the module load left them.                *)
(***************************************************************************)
InitCandle ==
  /\ SessionInit
  /\ currpairdetails = <<[currpair |-> "EURUSD", contractsize |-> 100000]>>
  /\ CandleInit
  /\ TickInit
  /\ WireInit

NextCandle ==
  \/ \E tickData \in TickData : deliverTick(tickData)
  \/ candleJobStart
  \/ candleJobStep
  \/ candleJobReturn
  \/ candleJobFail
  \/ candleJobRetry

SpecCandle == InitCandle /\ [][NextCandle]_vars

(***************************************************************************)
(* Serial specification: the candle worker await by await, with job        *)
(* timeouts. Operations that throw for other reasons are explored under    *)
(* SpecCandle.                                                             *)
(***************************************************************************)
NextSerial ==
  \/ \E tickData \in TickData : deliverTick(tickData)
  \/ handlerStart
  \/ handlerGet
  \/ handlerSet
  \/ handlerSelect
  \/ handlerWrite
  \/ handlerInsertConflicts
  \/ handlerReturn
  \/ handlerTimeout
  \/ candleJobRetry

SpecSerial == InitCandle /\ [][NextSerial]_vars

(***************************************************************************)
(* Bucket specification: one job is on the queue, its tick time drawn from *)
(* times around the bucket boundaries of every timeframe; the worker runs  *)
(* it. TLC's integers are 32 bits wide, so the times lie in the first 24   *)
(* days of the epoch; the processor's arithmetic is on integers below 2^53 *)
(* and exact there.                                                        *)
(***************************************************************************)
TimeSamples ==
  {0, 1, 59999, 60000, 60001, 119999, 120000, 3599999, 3600000, 3600001,
   7199999, 7200000, 86399999, 86400000, 86400001, 172799999, 172800000,
   1700000000, 2000000000}

InitBucket ==
  /\ SessionInit
  /\ currpairdetails = <<[currpair |-> "EURUSD", contractsize |-> 100000]>>
  /\ \E T \in TimeSamples, price \in Prices :
       candleWait = <<[id |-> 1,
                       tickData |-> [symbol |-> "EURUSD", price |-> price,
                                     timestamp |-> T],
                       attemptsMade |-> 0, ranThrough |-> FALSE]>>
  /\ candleDelayed = {}
  /\ candleActive = <<>>
  /\ candlePos = 0
  /\ candleAdded = 1
  /\ candleFailures = 0
  /\ redisCandles = <<>>
  /\ pgCandles = <<>>
  /\ lastDelivered = <<>>
  /\ computed = {}
  /\ firstProcessed = <<>>
  /\ candleCompleted = <<>>
  /\ handlers = {}
  /\ cacheOrder = <<>>
  /\ candleTimeouts = 0
  /\ TickInit
  /\ WireInit

NextBucket ==
  \/ candleJobStart
  \/ candleJobStep
  \/ candleJobReturn
  \/ candleJobFail
  \/ candleJobRetry

SpecBucket == InitBucket /\ [][NextBucket]_vars

(***************************************************************************)
(* Tick specification: the session engine adds tick jobs, five workers run *)
(* them; the catalog is loaded at some point. The candle worker is not     *)
(* run: the jobs the tick workers add stay on the candle queue.            *)
(***************************************************************************)
InitTick ==
  /\ SessionInit
  /\ currpairdetails = <<[currpair |-> "EURUSD", contractsize |-> 100000]>>
  /\ CandleInit
  /\ TickInit
  /\ WireInit

NextTick ==
  \/ fetchAllCurrencyPairs
  \/ cacheCandlesAndTicks
  \/ \E data \in MarketDataMessages : marketDataQueueAdd(data)
  \/ tickJobStart
  \/ tickGetContractSize
  \/ tickTableCheck
  \/ tickCreateTable
  \/ tickCreateTableFails
  \/ tickRPush
  \/ tickRPushFails
  \/ tickInsert
  \/ tickCandles
  \/ tickCandlesFails
  \/ tickJobReturn
  \/ tickJobFail
  \/ tickJobRetry

SpecTick == InitTick /\ [][NextTick]_vars

(***************************************************************************)
(* Reject specification: the tick pipeline with a catalog in which GBPUSD  *)
(* has no contract size, fed with ticks of both symbols.                   *)
(***************************************************************************)
RejectMessages ==
  {[symbol |-> symbol, type |-> type, price |-> 110000, quantity |-> 100000] :
     symbol \in Symbols, type \in TickTypes}

InitReject ==
  /\ SessionInit
  /\ currpairdetails = <<[currpair |-> "EURUSD", contractsize |-> 100000],
                         [currpair |-> "GBPUSD", contractsize |-> NULL]>>
  /\ CandleInit
  /\ TickInit
  /\ WireInit

NextReject ==
  \/ fetchAllCurrencyPairs
  \/ cacheCandlesAndTicks
  \/ \E data \in RejectMessages : marketDataQueueAdd(data)
  \/ tickJobStart
  \/ tickGetContractSize
  \/ tickGetContractSizeThrows
  \/ tickTableCheck
  \/ tickCreateTable
  \/ tickCreateTableFails
  \/ tickRPush
  \/ tickRPushFails
  \/ tickInsert
  \/ tickCandles
  \/ tickCandlesFails
  \/ tickJobReturn
  \/ tickJobFail
  \/ tickJobRetry

SpecReject == InitReject /\ [][NextReject]_vars

(***************************************************************************)
(* Bootstrap specification: initDatabase on any catalog, over a durable    *)
(* store in which any of the tick tables may exist already, with or        *)
(* without a row, and the candle table of EURUSD may hold a candle.        *)
(***************************************************************************)
PriorRows == {{}, {[ticktime |-> 0, lots |-> 1, price |-> 110000]}}

PriorTables ==
  UNION {[held -> PriorRows] : held \in SUBSET (Symbols \X TickTypes)}

PriorCandles ==
  {<<>>, [k \in {<<"EURUSD", "M1", 0>>} |-> newCandle(110000)]}

InitBootstrap ==
  /\ SessionInit
  /\ candleWait = <<>>
  /\ candleDelayed = {}
  /\ candleActive = <<>>
  /\ candlePos = 0
  /\ candleAdded = 0
  /\ candleFailures = 0
  /\ redisCandles = <<>>
  /\ pgCandles \in PriorCandles
  /\ lastDelivered = <<>>
  /\ computed = {}
  /\ firstProcessed = <<>>
  /\ candleCompleted = <<>>
  /\ handlers = {}
  /\ cacheOrder = <<>>
  /\ candleTimeouts = 0
  /\ tickWait = <<>>
  /\ tickDelayed = {}
  /\ tickActive = {}
  /\ tickAdded = 0
  /\ tickFailures = 0
  /\ tickLists = <<>>
  /\ tickTables \in PriorTables
  /\ tickCached = FALSE
  /\ tickCompleted = {}
  /\ tickEnqueued = <<>>
  /\ tickPushed = <<>>
  /\ tickDropped = {}
  /\ WireInit

NextBootstrap ==
  \/ fetchAllCurrencyPairs
  \/ cacheCandlesAndTicks

SpecBootstrap == InitBootstrap /\ [][NextBootstrap]_vars

(***************************************************************************)
(* Framing specification: a stream of complete frames reaches handleData   *)
(* in any number of 'data' events, cut at any byte.                        *)
(***************************************************************************)
InitFraming ==
  /\ SessionInit
  /\ currpairdetails = <<>>
  /\ CandleInit
  /\ TickInit
  /\ stream \in Streams
  /\ delivered = 0
  /\ cutInTrailer = FALSE
  /\ streamConn = 0
  /\ discarded = FALSE
  /\ buffer = <<>>
  /\ messages = <<>>
  /\ body = <<>>
  /\ encoded = <<>>
  /\ fieldMap = <<>>
  /\ frame = <<>>
  /\ handled = FALSE
  /\ queued = <<>>
  /\ offered = <<>>

NextFraming == \E n \in 1..(Len(stream) - delivered) : receiveData(n)

SpecFraming == InitFraming /\ [][NextFraming]_vars

(***************************************************************************)
(* Stream specification: the session engine over connections that are     *)
(* lost at any byte. Every connect attempt succeeds; each connection       *)
(* carries a stream of complete frames of which any prefix arrives, cut    *)
(* into reads at any byte, before the socket errors, ends or closes.       *)
(***************************************************************************)
InitStream ==
  /\ SessionInit
  /\ currpairdetails = <<>>
  /\ CandleInit
  /\ TickInit
  /\ WireInit

NextStream ==
  \/ connect
  \/ handleConnect
  \/ serverSends
  \/ \E n \in 1..(Len(stream) - delivered) : handleDataBytes(n)
  \/ client # "connecting" /\ handleError
  \/ handleEnd
  \/ handleClose
  \/ advanceTime

SpecStream == InitStream /\ [][NextStream]_vars

(***************************************************************************)
(* Codec specification: a body is encoded by createFixMessage and the      *)
(* string is parsed by parseFixMessage.                                    *)
(***************************************************************************)
InitCodec ==
  /\ SessionInit
  /\ currpairdetails = <<>>
  /\ CandleInit
  /\ TickInit
  /\ stream = <<>>
  /\ delivered = 0
  /\ cutInTrailer = FALSE
  /\ streamConn = 0
  /\ discarded = FALSE
  /\ buffer = <<>>
  /\ messages = <<>>
  /\ body \in Bodies
  /\ encoded = <<>>
  /\ fieldMap = <<>>
  /\ frame = <<>>
  /\ handled = FALSE
  /\ queued = <<>>
  /\ offered = <<>>

NextCodec == encodeBody \/ parseEncoded

SpecCodec == InitCodec /\ [][NextCodec]_vars

(***************************************************************************)
(* Entries specification: handleData on one W or X message.                *)
(***************************************************************************)
InitEntries ==
  /\ SessionInit
  /\ currpairdetails = <<>>
  /\ CandleInit
  /\ TickInit
  /\ stream = <<>>
  /\ delivered = 0
  /\ cutInTrailer = FALSE
  /\ streamConn = 0
  /\ discarded = FALSE
  /\ buffer = <<>>
  /\ messages = <<>>
  /\ body = <<>>
  /\ encoded = <<>>
  /\ fieldMap = <<>>
  /\ frame \in MarketDataFrames
  /\ handled = FALSE
  /\ queued = <<>>
  /\ offered = <<>>

NextEntries == handleMarketData

SpecEntries == InitEntries /\ [][NextEntries]_vars

(***************************************************************************)
(* Claims about the session engine (checked under Spec)                    *)
(***************************************************************************)
RequestsFor(sym) ==
  {i \in DOMAIN written : written[i].type = "V" /\ written[i].sym = sym}

\* C1: on every TCP connection the first message written is a Logon that
\* carries 34=1, whatever was sent on earlier connections.
C1_FirstMessageIsLogonWithSeq1 ==
  written # <<>> => (written[1].type = "A" /\ written[1].seq = 1)

\* C2: the 34= values of the messages written to one socket are strictly
\* increasing in the order they were written.
C2_OutboundSeqStrictlyIncreasing ==
  \A i, j \in DOMAIN written : i < j => written[i].seq < written[j].seq

\* C2 witness: one connection carried a Logon, two Market Data Requests and
\* a Logout.
C2_Witness ==
  /\ Len(written) = 4
  /\ written[1].type = "A"
  /\ written[2].type = "V"
  /\ written[3].type = "V"
  /\ written[4].type = "5"

\* C3: in a session that received the Logon response and ran the dispatch
\* while connected, every catalog pair with a non-null contract size has
\* exactly one Market Data Request and every pair with a null contract size
\* has none.
C3_OneRequestPerEligiblePair ==
  (logonResponses = 1 /\ dispatches >= 1) =>
    \A i \in DOMAIN availableCurrencyPairs :
      Cardinality(RequestsFor(availableCurrencyPairs[i].currpair)) =
        IF availableCurrencyPairs[i].contractsize # NULL THEN 1 ELSE 0

\* C4: a Market Data Request is on a socket only if a Logon response was
\* received on that socket before; no dispatch passes its guard earlier.
C4_NoRequestBeforeLogonResponse ==
  ((\E i \in DOMAIN written : written[i].type = "V") \/ dispatches >= 1)
    => logonResponses >= 1

\* C4 witness: a second connection, after an earlier session, has received
\* its own Logon response and carries a Market Data Request.
C4_Witness ==
  /\ connections = 2
  /\ logonResponses = 1
  /\ \E i \in DOMAIN written : written[i].type = "V"

\* A reconnect attempt is scheduled: a fresh socket, and connect() after the
\* fixed delay.
ReconnectScheduled == reconnectTimeout = reconnectDelay /\ client = "idle"

\* The engine has given up: the cap is reached, no connect is pending and no
\* TCP handshake is under way.
GivenUp ==
  /\ reconnectAttempts = maxReconnectAttempts
  /\ reconnectTimeout = NoTimer
  /\ client # "connecting"

\* C14: every socket error, end or close event clears isConnected and
\* schedules a reconnect attempt if and only if fewer than
\* maxReconnectAttempts attempts have been made since the last TCP connect;
\* the counter never exceeds maxReconnectAttempts; and once the engine has
\* given up at the cap, no connect is attempted again.
C14_ReconnectCapped ==
  /\ reconnectAttempts <= maxReconnectAttempts
  /\ [][reconnectAttempts' <= maxReconnectAttempts]_vars
  /\ [][(handleError \/ handleEnd \/ handleClose) =>
          /\ ~isConnected'
          /\ (reconnectAttempts < maxReconnectAttempts) <=> ReconnectScheduled']_vars
  /\ [][GivenUp => (GivenUp' /\ ~connect /\ ~handleConnect)]_vars

\* C14 witness: the connect of the last attempt has failed; the error event
\* was handled at the cap and nothing is scheduled.
C14_Witness ==
  /\ GivenUp
  /\ client = "dead"
  /\ ~isConnected

\* C15: once a Logout (35=5) has been received on a connection the engine
\* is disconnected (isConnected is false) and writes no further Market Data
\* Request on that connection.
C15_LogoutDisconnects ==
  /\ [][logoutReceived' => ~isConnected']_vars
  /\ [][(logoutReceived /\ logoutReceived') =>
          \A i \in DOMAIN written' :
            i > Len(written) => written'[i].type # "V"]_vars

\* The order of the handler's steps.
ShutdownOrder == <<"client.end">> \o ShutdownSteps

ShutdownLogInOrder ==
  /\ \/ IsPrefix(shutdownLog, ShutdownOrder)
     \/ IsPrefix(shutdownLog, <<"write Logout">> \o ShutdownOrder)
  /\ shutdown = "exit" =>
       /\ shutdownLog[Len(shutdownLog)] = "process.exit"
       /\ Len(shutdownLog) >= Len(ShutdownOrder)

\* C16: the steps of the shutdown handler complete in the order Logout (if
\* and only if the session is up at the signal), half-close of the socket,
\* tick queue, candle queue, cache connection, durable store, exit: the
\* steps completed so far are always a prefix of that order, and the process
\* has exited only with every step before it completed.
C16_ShutdownInOrder ==
  /\ ShutdownLogInOrder
  /\ [][ShutdownLogInOrder']_vars
  /\ [][(shutdown = "run" /\ shutdown' = "closing") =>
          (isConnected <=>
             /\ shutdownLog'[1] = "write Logout"
             /\ Len(written') = Len(written) + 1
             /\ written'[Len(written')].type = "5")]_vars

\* C16 witness: the session was up at the signal, the Logout was written and
\* the process has exited after every step.
C16_Witness ==
  /\ shutdown = "exit"
  /\ shutdownLog = <<"write Logout">> \o ShutdownOrder

\* C27: once the SIGINT handler has called disconnect(), no step takes the
\* below-cap branch of reconnect(): no socket is replaced, no reconnect timer
\* armed and no redisClient.connect() issued.
C27_NoReconnectAfterShutdown ==
  [][shutdown # "run" =>
       /\ reconnectAttempts' # reconnectAttempts + 1
       /\ (reconnectTimeout = NoTimer => reconnectTimeout' = NoTimer)]_vars

\* C18: the bootstrap has run to completion before the first TCP connect is
\* initiated, hence before any Logon response arrives: while a TCP handshake
\* is under way or a Logon response has been received, initDatabase is done.
C18_BootstrapBeforeConnect ==
  /\ client = "connecting" => bootstrap = "done"
  /\ logonResponses > 0 => bootstrap = "done"

(***************************************************************************)
(* Claims about the candle engine (checked under SpecCandle, C9 under      *)
(* SpecBucket)                                                             *)
(***************************************************************************)
Ordered(candle) ==
  /\ candle.low <= candle.open
  /\ candle.open <= candle.high
  /\ candle.low <= candle.close
  /\ candle.close <= candle.high

\* C5: every candle in the cache and every candle row in the durable table
\* has low <= open <= high and low <= close <= high.
C5_CandlesOrdered ==
  /\ \A k \in DOMAIN redisCandles : Ordered(redisCandles[k])
  /\ \A k \in DOMAIN pgCandles : Ordered(pgCandles[k])

\* C5 witness: a job that failed and was retried has run to its return, and a
\* bucket it wrote holds a candle with low < high in both stores.
C5_Witness ==
  /\ candleActive # <<>>
  /\ candleActive[1].attemptsMade >= 1
  /\ candlePos = ReturnPos
  /\ \E k \in BucketsOf(candleActive[1].tickData) :
       /\ k \in DOMAIN redisCandles /\ redisCandles[k].low < redisCandles[k].high
       /\ k \in DOMAIN pgCandles /\ pgCandles[k].low < pgCandles[k].high

OpenFixed(store, store2, creator) ==
  /\ DOMAIN store \subseteq DOMAIN store2
  /\ \A k \in DOMAIN store2 :
       IF k \in DOMAIN store THEN store2[k].open = store[k].open
       ELSE creator # <<>> /\ store2[k].open = creator[1].tickData.price

\* C6: the open of a bucket's candle, in the cache entry and in the durable
\* row, is the price of the first tick a candle job processed for the bucket.
C6_OpenIsFirstTickProcessed ==
  /\ \A k \in DOMAIN redisCandles : redisCandles[k].open = firstProcessed[k]
  /\ \A k \in DOMAIN pgCandles : pgCandles[k].open = firstProcessed[k]

\* C6, the part that holds: a cache entry and a durable row get their open
\* from the tick of the job that creates them, and no later step of any job,
\* first attempt or retry, changes or removes it.
C6_OpenNeverChanges ==
  [][/\ OpenFixed(redisCandles, redisCandles', candleActive)
     /\ OpenFixed(pgCandles, pgCandles', candleActive)]_vars

PendingJobs ==
  {candleWait[i] : i \in DOMAIN candleWait} \cup candleDelayed
    \cup {candleActive[i] : i \in DOMAIN candleActive}
    \cup {h.job : h \in handlers}

AllJobsFinished(k) == \A job \in PendingJobs : k \notin BucketsOf(job.tickData)

\* C7: once every job of a bucket has finished, the close of the bucket's
\* candle, in the cache and in the durable table, is the price of the most
\* recent tick handed to the candle queue for that bucket.
C7_CloseIsLastDeliveredTick ==
  \A k \in DOMAIN lastDelivered :
    AllJobsFinished(k) =>
      /\ k \in DOMAIN redisCandles => redisCandles[k].close = lastDelivered[k]
      /\ k \in DOMAIN pgCandles => pgCandles[k].close = lastDelivered[k]

Quiescent == candleActive = <<>> /\ candleWait = <<>> /\ candleDelayed = {}

\* C8: running the candle job of a tick a second time leaves the cache
\* entries and durable rows of all three timeframes as the first run left
\* them: for the running job once it has reached its return, and for every
\* tick from every state the stores are left in when the queue is empty.
C8_JobIdempotent ==
  LET S == <<redisCandles, pgCandles>>
  IN /\ (candleActive # <<>> /\ candlePos = ReturnPos) =>
          processJob(S, candleActive[1].tickData) = S
     /\ Quiescent =>
          \A tickData \in TickData :
            LET once == processJob(S, tickData)
            IN processJob(once, tickData) = once

\* C8 witness: a job whose earlier attempt ran through every timeframe and
\* then failed has been run again to its return, over candles that another
\* tick had written.
C8_Witness ==
  /\ candleActive # <<>>
  /\ candleActive[1].attemptsMade >= 1
  /\ candleActive[1].ranThrough
  /\ candlePos = ReturnPos
  /\ \E k \in DOMAIN redisCandles : redisCandles[k].low < redisCandles[k].high

\* C9: every candletime the processor computed for a tick time T and a
\* timeframe of duration D satisfies candletime <= T < candletime + D and
\* candletime mod D = 0; the last ms of the bucket maps to the same
\* candletime and the ms after it to the next one.
C9_CandleTimeIsBucketStart ==
  \A c \in computed :
    LET T == c[1]
        D == defaultTimeFrames(c[2])
        candletime == c[3]
    IN /\ candletime <= T
       /\ T < candletime + D
       /\ candletime % D = 0
       /\ candleTimeMs(candletime + D - 1, D) = candletime
       /\ candleTimeMs(candletime + D, D) = candletime + D

\* C9 witness: the tick at the last ms of its M1, H1 and D1 buckets has been
\* placed in the buckets that start at 23:59:00, 23:00:00 and 00:00:00.
C9_Witness ==
  {<<86399999, "M1", 86340000>>, <<86399999, "H1", 82800000>>,
   <<86399999, "D1", 0>>} \subseteq computed

\* The jobs added to the candle queue are numbered 1..candleAdded; a job is
\* pending while it waits, is delayed or runs, and it has completed once the
\* processor returned for it.
CompletedFor(k) ==
  {i \in DOMAIN candleCompleted : k \in BucketsOf(candleCompleted[i].tickData)}

CompletedPrices(k) == {candleCompleted[i].tickData.price : i \in CompletedFor(k)}

AllJobsCompleted(k) ==
  /\ AllJobsFinished(k)
  /\ \A id \in 1..candleAdded :
       \/ \E i \in DOMAIN candleCompleted : candleCompleted[i].id = id
       \/ \E job \in PendingJobs : job.id = id
  /\ CompletedFor(k) # {}

MaxOf(S) == CHOOSE x \in S : \A y \in S : y <= x
MinOf(S) == CHOOSE x \in S : \A y \in S : x <= y

\* C20: once every job of a bucket has completed, the high of the bucket's
\* candle is the greatest and its low the least of the prices of the ticks
\* whose jobs completed for the bucket, in the cache entry and in the durable
\* row, whatever the order in which the jobs completed.
C20_HighLowAreExtrema ==
  \A k \in DOMAIN lastDelivered :
    AllJobsCompleted(k) =>
      /\ k \in DOMAIN redisCandles /\ k \in DOMAIN pgCandles
      /\ redisCandles[k].high = MaxOf(CompletedPrices(k))
      /\ redisCandles[k].low = MinOf(CompletedPrices(k))
      /\ pgCandles[k].high = MaxOf(CompletedPrices(k))
      /\ pgCandles[k].low = MinOf(CompletedPrices(k))

\* C20, the part that holds: the high and low are these extrema as long as
\* no job timeout has fired.
C20_ExtremaWithoutTimeout == candleTimeouts = 0 => C20_HighLowAreExtrema

\* C20 witness: two jobs of one bucket with different prices have completed,
\* the job added second before the job added first (whose first attempt
\* failed), and the bucket has no job left.
C20_Witness ==
  \E k \in DOMAIN lastDelivered :
    /\ AllJobsCompleted(k)
    /\ Len(candleCompleted) = 2
    /\ candleCompleted[1].id = 2 /\ candleCompleted[2].id = 1
    /\ CompletedFor(k) = {1, 2}
    /\ candleCompleted[1].tickData.price > candleCompleted[2].tickData.price
    /\ redisCandles[k].low < redisCandles[k].high

\* No two invocations of the processor run at a time, and what an invocation
\* has read of a candle is still what the store holds when it writes back.
Serialized ==
  /\ Cardinality(handlers) <= 1
  /\ \A h \in handlers :
       /\ AtSet(h) => h.held = lookup(redisCandles, KeyAt(h))
       /\ AtWrite(h) => h.held = lookup(pgCandles, KeyAt(h))

\* C21: at most one candle job executes at any time, and between a job's
\* read of a cache entry or durable row and its write-back no other job has
\* written that candle.
C21_CandleUpdatesSerialized == Serialized

\* C21, the part that holds: the updates are serialized as long as no job
\* timeout has fired.
C21_SerializedWithoutTimeout == candleTimeouts = 0 => Serialized

\* C26: whenever no candle job is executing, a cache entry and a durable row
\* of the same (symbol, timeframe, candletime) hold the same open, high, low
\* and close.
C26_CacheEqualsDurable ==
  candleActive = <<>> =>
    \A k \in DOMAIN redisCandles \cap DOMAIN pgCandles :
      /\ redisCandles[k].open = pgCandles[k].open
      /\ redisCandles[k].high = pgCandles[k].high
      /\ redisCandles[k].low = pgCandles[k].low
      /\ redisCandles[k].close = pgCandles[k].close

\* C26, the part that holds: once every job of a bucket has completed, the
\* cache entry and the durable row of the bucket both exist and agree on
\* high, low and close.
C26_AgreeOnceCompleted ==
  \A k \in DOMAIN lastDelivered :
    AllJobsCompleted(k) =>
      /\ k \in DOMAIN redisCandles \cap DOMAIN pgCandles
      /\ redisCandles[k].high = pgCandles[k].high
      /\ redisCandles[k].low = pgCandles[k].low
      /\ redisCandles[k].close = pgCandles[k].close

(***************************************************************************)
(* Claims about the tick pipeline (checked under SpecTick)                 *)
(***************************************************************************)
OneRowPerLots(tables) ==
  \A t \in DOMAIN tables :
    \A r1, r2 \in tables[t] : r1.lots = r2.lots => r1 = r2

\* C10: every tick table holds at most one row per lots value, and no step
\* removes or changes a row: the row first inserted for a lots value keeps
\* its ticktime and price, and a later tick with that lots value adds none.
C10_OneRowPerLotsKept ==
  /\ OneRowPerLots(tickTables)
  /\ [][/\ OneRowPerLots(tickTables')
        /\ \A t \in DOMAIN tickTables :
             t \in DOMAIN tickTables' /\ tickTables[t] \subseteq tickTables'[t]]_vars

\* C10 witness: a worker is past the INSERT of a tick whose lots value was
\* already in its table, in a row with another price: that row is still the
\* only one with this lots value.
C10_Witness ==
  \E w \in tickActive :
    /\ w.pos \in {AtCandles, AtReturn}
    /\ tickTableName(w.job.data) \in DOMAIN tickTables
    /\ \E r \in tickTables[tickTableName(w.job.data)] :
         r.lots = w.lots /\ r.price # w.job.data.price

\* The tick jobs the queue still holds, and those that have completed.
TickJobs ==
  {tickWait[i] : i \in DOMAIN tickWait} \cup tickDelayed
    \cup {w.job : w \in tickActive} \cup tickCompleted

\* C11: every BID tick job that has completed has put exactly one candle job
\* on the candle queue, and no ASK tick job has put any.
C11_CandleJobIffBid ==
  /\ \A job \in tickCompleted :
       job.data.type = "BID" => tickEnqueued[job.id] = 1
  /\ \A job \in TickJobs :
       job.data.type = "ASK" => tickEnqueued[job.id] = 0

\* C11, the half that holds: no ASK tick job puts a candle job on the queue.
C11_NoCandleJobForAsk ==
  \A job \in TickJobs : job.data.type = "ASK" => tickEnqueued[job.id] = 0

\* A worker at the rPush whose step is not an injected failure: cache and
\* durable store answer.
PushesNext(w) ==
  /\ w.pos = AtRPush
  /\ tickFailures' = tickFailures
  /\ w \notin tickActive'

\* The worker has appended its tick to the key and stands at the INSERT.
Pushed(w) ==
  /\ \E v \in tickActive' : v.job = w.job /\ v.pos = AtInsert
  /\ LET key == tickTableName(w.job.data)
     IN /\ key \in DOMAIN tickLists'
        /\ tickLists'[key].type = "list"
        /\ tickLists'[key].value # <<>>
        /\ tickLists'[key].value[Len(tickLists'[key].value)].price = w.job.data.price

\* C24: a tick job whose key ticks_{sym}_{side} holds the snapshot the
\* bootstrap has published appends its tick to the key and goes on to the
\* durable insert, when cache and durable store are reachable.
C24_AppendAfterHydration ==
  [][\A w \in tickActive :
       (/\ PushesNext(w)
        /\ tickTableName(w.job.data) \in DOMAIN tickLists
        /\ tickLists[tickTableName(w.job.data)].type = "string")
       => Pushed(w)]_vars

\* C24, the part that holds: the append succeeds on a key that is absent or
\* holds a list.
C24_AppendWithoutHydration ==
  [][\A w \in tickActive :
       (/\ PushesNext(w)
        /\ tickTableName(w.job.data) \in DOMAIN tickLists
              => tickLists[tickTableName(w.job.data)].type = "list")
       => Pushed(w)]_vars

\* C25: no tick job has appended to its cache list more than once, retries
\* included.
C25_OneElementPerJob ==
  \A id \in DOMAIN tickPushed : tickPushed[id] <= 1

\* C25, the part that holds: a job appends at most once per attempt.
C25_OneElementPerAttempt ==
  /\ \A job \in TickJobs \cup tickDropped :
       tickPushed[job.id] <= Min(job.attemptsMade + 1, attempts)
  /\ \A key \in DOMAIN tickLists :
       tickLists[key].type = "list" =>
         Len(tickLists[key].value) <= Len(tickPushed) * attempts

\* The pairs of the catalog with a contract size, and the snapshots the
\* bootstrap is to publish for a pair.
EligiblePairs == validPairs(currpairdetails)

Hydrated(symbol) ==
  /\ \A type \in TickTypes :
       /\ <<symbol, type>> \in DOMAIN tickLists
       /\ <<symbol, type>> \in DOMAIN tickTables
       /\ tickLists[<<symbol, type>>] =
            [type |-> "string", value |-> tickTables[<<symbol, type>>]]
  /\ <<symbol, "CANDLES">> \in DOMAIN tickLists
  /\ tickLists[<<symbol, "CANDLES">>] =
       [type |-> "string", value |-> candleRows(symbol)]

\* C22: after the bootstrap has run, the cache keys of every pair of the
\* catalog with a contract size hold the snapshots of the pair's tick and
\* candle tables, whatever other pairs the catalog holds.
C22_EligiblePairsHydrated ==
  tickCached => \A symbol \in EligiblePairs : Hydrated(symbol)

\* C22, the part that holds: the pairs are hydrated when the tick tables of
\* every pair of the catalog exist, as they do when every pair has a
\* contract size.
C22_HydratedWhenAllTablesExist ==
  tickCached =>
    ((\A i \in DOMAIN currpairdetails :
        ({currpairdetails[i].currpair} \X TickTypes) \subseteq DOMAIN tickTables)
     => \A symbol \in EligiblePairs : Hydrated(symbol))

(***************************************************************************)
(* Claims about the wire format (checked under SpecFraming)                *)
(***************************************************************************)
Delivered == delivered = Len(stream)

\* The field maps of a list of messages.
RECURSIVE Decoded(_)
Decoded(ms) ==
  IF ms = <<>> THEN <<>> ELSE <<parseFixMessage(Head(ms))>> \o Decoded(Tail(ms))

\* C12: however the stream of complete frames is cut into reads, the
\* messages decoded so far are a prefix of those decoded from the whole
\* stream at once, and once the whole stream is delivered they are the same
\* list: none lost, none duplicated.
C12_FramingStreamingSafe ==
  LET whole == Decoded(extractMessages(stream).messages)
  IN /\ IsPrefix(Decoded(messages), whole)
     /\ Delivered => Decoded(messages) = whole

\* C12 witness: a stream of two frames has been delivered whole, one read
\* has ended inside a trailer, and both messages have been decoded.
C12_Witness ==
  /\ Delivered
  /\ cutInTrailer
  /\ Len(messages) = 2

\* s occurs in t as a contiguous run of bytes.
IsSubstring(s, t) == \E p \in 0..(Len(t) - Len(s)) : OccursAt(t, s, p)

\* The bytes received on the current connection so far.
Received == SubSeq(stream, 1, delivered)

\* C28: every message decoded on a connection is a run of bytes received on
\* that connection, and the messages decoded after all its bytes have
\* arrived are those of its own stream: nothing left in the buffer by an
\* earlier connection is part of them.
C28_MessagesOfOneConnection ==
  /\ \A i \in DOMAIN messages : IsSubstring(messages[i], Received)
  /\ IsSubstring(buffer, Received)
  /\ (streamConn = connections /\ Delivered) =>
       Decoded(messages) = Decoded(extractMessages(stream).messages)

\* C28 witness: a connection was lost with a partial frame in the buffer, the
\* next connection has been established, and its whole stream of two frames
\* has been received and decoded.
C28_Witness ==
  /\ discarded
  /\ connections = 2
  /\ streamConn = connections
  /\ Delivered
  /\ Len(messages) = 2

(***************************************************************************)
(* Claims about the codec (checked under SpecCodec)                        *)
(***************************************************************************)
Parsed == fieldMap # <<>>

\* The header and trailer tags createFixMessage writes itself.
OwnTags == {<<"8">>, <<"9">>, <<"3", "5">>, <<"4", "9">>, <<"5", "6">>,
            <<"3", "4">>, <<"5", "2">>, <<"1", "0">>}

\* C13: parsing the string createFixMessage returns gives, for each tag of
\* the body, exactly the value that was encoded, empty values and values
\* that contain '=' included.
C13_DecodePreservesBodyFields ==
  Parsed =>
    \A i \in DOMAIN body :
      /\ body[i][1] \in DOMAIN fieldMap
      /\ fieldMap[body[i][1]] = body[i][2]

\* C13, the part that holds: a body value that is not empty and contains
\* neither '=' nor SOH is preserved.
C13_DecodePreservesPlainValues ==
  Parsed =>
    \A i \in DOMAIN body :
      (/\ body[i][2] # <<>>
       /\ \A k \in DOMAIN body[i][2] : body[i][2][k] \notin {"=", SOH})
      => /\ body[i][1] \in DOMAIN fieldMap
         /\ fieldMap[body[i][1]] = body[i][2]

(***************************************************************************)
(* Claims about ticks without a contract size (checked under SpecReject)   *)
(***************************************************************************)
\* The catalog table has no non-null contract size for the symbol (the
\* in-memory catalog is empty or a copy of the table).
NoContractSize(symbol) ==
  \A i \in DOMAIN currpairdetails :
    currpairdetails[i].currpair = symbol => currpairdetails[i].contractsize = NULL

\* C17: a tick job of a symbol without a contract size never gets past
\* getContractSize: it appends nothing to the cache list, inserts no row,
\* adds no candle job and never completes; it has failed fewer than 3 times
\* while the queue holds it and exactly 3 times when it is dropped.
C17_NoContractSizeRejected ==
  /\ \A w \in tickActive :
       NoContractSize(w.job.data.symbol) => w.pos = AtGetContractSize
  /\ \A key \in DOMAIN tickLists :
       NoContractSize(key[1]) => tickLists[key].type # "list"
  /\ \A t \in DOMAIN tickTables : NoContractSize(t[1]) => tickTables[t] = {}
  /\ \A i \in DOMAIN candleWait : ~NoContractSize(candleWait[i].tickData.symbol)
  /\ \A job \in TickJobs \cup tickDropped :
       NoContractSize(job.data.symbol) =>
         /\ job \notin tickCompleted
         /\ tickEnqueued[job.id] = 0
         /\ IF job \in tickDropped THEN job.attemptsMade = attempts
            ELSE job.attemptsMade < attempts

\* C17 witness: a GBPUSD tick job has been rejected three times by
\* getContractSize (no other failure has occurred) and dropped.
C17_Witness ==
  /\ tickFailures = 0
  /\ \E job \in tickDropped :
       /\ NoContractSize(job.data.symbol)
       /\ job.attemptsMade = attempts

(***************************************************************************)
(* Claims about the repeating group (checked under SpecEntries)            *)
(***************************************************************************)
\* The positions of tag 269 in the message, and the entry opened at one of
\* them: the fields 269, 270, 271, 273 from there up to the next 269 or the
\* end of the message.
Opens(fields) == {i \in DOMAIN fields : fields[i][1] = "269" /\ fields[i][2] # ""}

EntryAt(fields, i) ==
  LET next == {j \in Opens(fields) : j > i}
      last == IF next = {} THEN Len(fields)
              ELSE (CHOOSE j \in next : \A k \in next : j <= k) - 1
  IN SelectSeq(SubSeq(fields, i, last),
               LAMBDA f : f[1] \in {"269", "270", "271", "273"} /\ f[2] # "")

Has270(entry) == \E k \in DOMAIN entry : entry[k][1] = "270"

\* The entries of the message with 269 in {0, 1} and a 270, as <<269, 270>>
\* pairs in source order.
RECURSIVE EligibleFrom(_, _)
EligibleFrom(fields, i) ==
  IF i > Len(fields) THEN <<>>
  ELSE IF i \in Opens(fields) /\ fields[i][2] \in {"0", "1"}
            /\ Has270(EntryAt(fields, i))
  THEN <<<<IF fields[i][2] = "0" THEN "BID" ELSE "ASK",
           parseNumber(fieldValue(EntryAt(fields, i), "270"))>>>>
         \o EligibleFrom(fields, i + 1)
  ELSE EligibleFrom(fields, i + 1)

RECURSIVE IsSubsequence(_, _)
IsSubsequence(s, t) ==
  IF s = <<>> THEN TRUE
  ELSE IF t = <<>> THEN FALSE
  ELSE IF Head(s) = Head(t) THEN IsSubsequence(Tail(s), Tail(t))
  ELSE IsSubsequence(s, Tail(t))

\* What the queue holds, as <<type, price>> pairs.
QueuedEntries == [i \in DOMAIN queued |-> <<queued[i].data.type, queued[i].data.price>>]

\* C19: after handleData has processed a W or X message, the jobs on the
\* tick queue are, in source order, one per entry with 269 in {0, 1} and a
\* 270, and none for any other entry.
C19_JobsAreEligibleEntries ==
  handled => QueuedEntries = EligibleFrom(frame, 1)

\* C19, the part that holds: the jobs on the queue are a subsequence of the
\* eligible entries in source order, with the first eligible entry of each
\* side among them.
C19_JobsAmongEligibleEntries ==
  handled =>
    LET eligible == EligibleFrom(frame, 1)
    IN /\ IsSubsequence(QueuedEntries, eligible)
       /\ eligible # <<>> => queued # <<>> /\ QueuedEntries[1] = eligible[1]

\* C23: the jobs handed to marketDataQueue.add for the entries of a message
\* have pairwise distinct job ids, and each of them is a job of its own on
\* the queue.
C23_JobIdsDistinct ==
  handled =>
    /\ \A i, j \in DOMAIN offered : i # j => offered[i].jobId # offered[j].jobId
    /\ queued = offered

\* C23, the part that holds: two jobs of the queue never have the same id, and
\* a job handed over is missing from the queue only if a job handed over
\* before it had its id.
C23_QueuedIdsDistinct ==
  handled =>
    /\ \A i, j \in DOMAIN queued : i # j => queued[i].jobId # queued[j].jobId
    /\ \A i \in DOMAIN offered :
         \/ \E j \in DOMAIN queued : queued[j] = offered[i]
         \/ \E j \in 1..(i - 1) : offered[j].jobId = offered[i].jobId

====
